---- MODULE Spec2Model ----
(***************************************************************************)
(* A model of the ScrAPEM datasheet extractor: the deterministic field     *)
(* extractors (extract_python.py, extract_data_deterministic.py), the      *)
(* strict model-code extractor, the AI response handling (extract_ai.py)   *)
(* and the merge engine (merge_results.py), driven as app.py drives them.  *)
(*                                                                         *)
(* A Python str is a sequence of characters, each character a string of    *)
(* its own ("A", " ", "\n"); characters outside ASCII carry a name         *)
(* ("Oslash" is U+00D8).  Python's None is the value PyNone.  A dict with  *)
(* fixed keys is a function; a dict whose insertion order is read back is  *)
(* a sequence of <<key, value>> pairs.                                     *)
(***************************************************************************)
EXTENDS Integers, Sequences, FiniteSets, TLC

\* ------------------------------------------------------------------------
\* Python str
\* ------------------------------------------------------------------------

UpperLetters ==
  <<"A","B","C","D","E","F","G","H","I","J","K","L","M",
    "N","O","P","Q","R","S","T","U","V","W","X","Y","Z">>

LowerLetters ==
  <<"a","b","c","d","e","f","g","h","i","j","k","l","m",
    "n","o","p","q","r","s","t","u","v","w","x","y","z">>

\* the letters outside ASCII that the sources and the modelled documents hold
ExtraUpper == <<"Oslash", "Atilde", "Acirc", "OElig">>

ExtraLower == <<"oslash", "atilde", "acirc", "oelig">>

AllUpper == UpperLetters \o ExtraUpper

AllLower == LowerLetters \o ExtraLower

UpperSet == {AllUpper[i] : i \in 1..Len(AllUpper)}

LowerSet == {AllLower[i] : i \in 1..Len(AllLower)}

Digits == {"0","1","2","3","4","5","6","7","8","9"}

Whitespace == {" ", "\t", "\n"}

PyNone == <<"None">>

\* v bound to a name in the expression F
Let(v, F(_)) == F(v)

ToUpper(c) ==
  IF c \in LowerSet THEN AllUpper[CHOOSE i \in 1..Len(AllLower) : AllLower[i] = c] ELSE c

ToLower(c) ==
  IF c \in UpperSet THEN AllLower[CHOOSE i \in 1..Len(AllUpper) : AllUpper[i] = c] ELSE c

IsAlphaChar(c) == c \in UpperSet \cup LowerSet

IsDigitChar(c) == c \in Digits

IsAlnumChar(c) == IsAlphaChar(c) \/ IsDigitChar(c)

Upper(s) == [i \in 1..Len(s) |-> ToUpper(s[i])]

Lower(s) == [i \in 1..Len(s) |-> ToLower(s[i])]

\* str.isalpha(), str.isalnum(), str.isupper(): false on the empty string
IsAlpha(s) == Len(s) > 0 /\ \A i \in 1..Len(s) : IsAlphaChar(s[i])

IsAlnum(s) == Len(s) > 0 /\ \A i \in 1..Len(s) : IsAlnumChar(s[i])

IsUpperStr(s) ==
  /\ \E i \in 1..Len(s) : s[i] \in UpperSet
  /\ \A i \in 1..Len(s) : s[i] \notin LowerSet

\* sub in s
Contains(sub, s) ==
  \E i \in 0..(Len(s) - Len(sub)) : SubSeq(s, i + 1, i + Len(sub)) = sub

StartsWith(s, prefix) ==
  Len(prefix) <= Len(s) /\ SubSeq(s, 1, Len(prefix)) = prefix

\* str.strip()
Strip(s) ==
  Let({i \in 1..Len(s) : s[i] \notin Whitespace}, LAMBDA keep :
     IF keep = {} THEN <<>>
     ELSE SubSeq(s, CHOOSE i \in keep : \A j \in keep : i <= j,
                    CHOOSE i \in keep : \A j \in keep : j <= i))

\* str.replace(old, new) for a one-character old
RECURSIVE ReplaceChar(_, _, _)
ReplaceChar(s, old, new) ==
  IF s = <<>> THEN <<>>
  ELSE (IF Head(s) = old THEN new ELSE <<Head(s)>>)
       \o ReplaceChar(Tail(s), old, new)

\* sep.join(items)
RECURSIVE Join(_, _)
Join(sep, items) ==
  IF items = <<>> THEN <<>>
  ELSE IF Len(items) = 1 THEN items[1]
  ELSE items[1] \o sep \o Join(sep, Tail(items))

\* s.split(sep) for a one-character sep
RECURSIVE SplitFrom(_, _, _)
SplitFrom(s, sep, cur) ==
  IF s = <<>> THEN <<cur>>
  ELSE IF Head(s) = sep THEN <<cur>> \o SplitFrom(Tail(s), sep, <<>>)
  ELSE SplitFrom(Tail(s), sep, Append(cur, Head(s)))

Split(s, sep) == SplitFrom(s, sep, <<>>)

\* s.split(): the runs of non-whitespace characters
RECURSIVE SplitWsFrom(_, _)
SplitWsFrom(s, cur) ==
  IF s = <<>> THEN (IF cur = <<>> THEN <<>> ELSE <<cur>>)
  ELSE IF Head(s) \in Whitespace
       THEN (IF cur = <<>> THEN <<>> ELSE <<cur>>) \o SplitWsFrom(Tail(s), <<>>)
       ELSE SplitWsFrom(Tail(s), Append(cur, Head(s)))

SplitWs(s) == SplitWsFrom(s, <<>>)

\* the elements of a sequence, as a set
Range(seq) == {seq[i] : i \in 1..Len(seq)}

\* dict.get(key) with the default None
Get(d, k) == IF k \in DOMAIN d THEN d[k] ELSE PyNone

\* dict.get(key, default)
GetOr(d, k, default) == IF k \in DOMAIN d THEN d[k] ELSE default

\* The outcome of a call: the value it returns, or the exception it raises
Return(v) == [raised |-> PyNone, value |-> v]

Raise(e) == [raised |-> e, value |-> <<>>]

\* bool(v) of a str or None
Truthy(v) == v # PyNone /\ v # <<>>

\* ------------------------------------------------------------------------
\* Python re: a backtracking matcher over pattern trees
\* ------------------------------------------------------------------------
\* A pattern is a tree of records.  Match(r, s, p, g) is the sequence of
\* ways r matches s from position p, in the order re's backtracking tries
\* them; each way is [e |-> the position after the match, g |-> the spans
\* of the capture groups].  re takes the first way that lets the rest of
\* the pattern match.

WordChars == UpperSet \cup LowerSet \cup Digits \cup {"_"}

Ch(cs) == [t |-> "ch", cs |-> cs, neg |-> FALSE]

NotCh(cs) == [t |-> "ch", cs |-> cs, neg |-> TRUE]

Cat(rs) == [t |-> "cat", rs |-> rs]

Alt(rs) == [t |-> "alt", rs |-> rs]

\* greedy r{min,max}; max = -1 is no upper limit
Rep(r, min, max) == [t |-> "rep", r |-> r, min |-> min, max |-> max, lazy |-> FALSE]

\* r{min,max}?
LazyRep(r, min, max) == [t |-> "rep", r |-> r, min |-> min, max |-> max, lazy |-> TRUE]

Star(r) == Rep(r, 0, -1)

Plus(r) == Rep(r, 1, -1)

Opt(r) == Rep(r, 0, 1)

\* capture group number n
Grp(n, r) == [t |-> "grp", n |-> n, r |-> r]

\* \b
WB == [t |-> "wb"]

\* (?=r)
Look(r) == [t |-> "look", r |-> r]

\* \Z
EndZ == [t |-> "end"]

\* a literal string, matched as written
Lit(str) == Cat([i \in 1..Len(str) |-> Ch({str[i]})])

\* a literal string under re.IGNORECASE
LitCI(str) == Cat([i \in 1..Len(str) |-> Ch({ToUpper(str[i]), ToLower(str[i])})])

\* a character class under re.IGNORECASE
ChCI(cs) == Ch({ToUpper(c) : c \in cs} \cup {ToLower(c) : c \in cs})

\* \d, \s, \w and . (without re.DOTALL)
ReD == Ch(Digits)

ReS == Ch(Whitespace)

ReW == Ch(WordChars)

ReDot == NotCh({"\n"})

ReDotAll == NotCh({})

IsWordBoundary(s, p) ==
  (p > 1 /\ s[p - 1] \in WordChars) # (p <= Len(s) /\ s[p] \in WordChars)

NoGroups == <<>>

RECURSIVE Match(_, _, _, _), MatchCat(_, _, _, _, _), MatchAlt(_, _, _, _, _),
          MatchRep(_, _, _, _, _), MatchEach(_, _, _, _, _, _),
          MatchMore(_, _, _, _, _, _)

Match(r, s, p, g) ==
  CASE r.t = "ch" ->
         IF p <= Len(s) /\ ((s[p] \in r.cs) # r.neg)
         THEN <<[e |-> p + 1, g |-> g]>> ELSE <<>>
    [] r.t = "cat" -> MatchCat(r.rs, 1, s, p, g)
    [] r.t = "alt" -> MatchAlt(r.rs, 1, s, p, g)
    [] r.t = "rep" -> MatchRep(r, 0, s, p, g)
    [] r.t = "grp" ->
         Let(Match(r.r, s, p, g), LAMBDA ms :
            [i \in 1..Len(ms) |->
               [e |-> ms[i].e,
                g |-> [n \in DOMAIN ms[i].g \cup {r.n} |->
                         IF n = r.n THEN <<p, ms[i].e>> ELSE ms[i].g[n]]]])
    [] r.t = "wb" ->
         IF IsWordBoundary(s, p) THEN <<[e |-> p, g |-> g]>> ELSE <<>>
    [] r.t = "look" ->
         IF Match(r.r, s, p, g) # <<>> THEN <<[e |-> p, g |-> g]>> ELSE <<>>
    [] r.t = "end" ->
         IF p = Len(s) + 1 THEN <<[e |-> p, g |-> g]>> ELSE <<>>

\* rs[i], rs[i+1], ... in sequence
MatchCat(rs, i, s, p, g) ==
  IF i > Len(rs) THEN <<[e |-> p, g |-> g]>>
  ELSE MatchEach(Match(rs[i], s, p, g), 1, rs, i + 1, s, <<>>)

\* for each way ms[k] of matching a part, the ways of matching the rest
MatchEach(ms, k, rs, i, s, acc) ==
  IF k > Len(ms) THEN acc
  ELSE MatchEach(ms, k + 1, rs, i, s, acc \o MatchCat(rs, i, s, ms[k].e, ms[k].g))

\* rs[i] | rs[i+1] | ...
MatchAlt(rs, i, s, p, g) ==
  IF i > Len(rs) THEN <<>>
  ELSE Match(rs[i], s, p, g) \o MatchAlt(rs, i + 1, s, p, g)

\* r.r repeated, n repetitions done so far
MatchRep(r, n, s, p, g) ==
  Let(IF n >= r.min THEN <<[e |-> p, g |-> g]>> ELSE <<>>, LAMBDA stop :
  Let(IF r.max = -1 \/ n < r.max
              THEN MatchMore(Match(r.r, s, p, g), 1, r, n + 1, s, p)
              ELSE <<>>, LAMBDA more :
     IF r.lazy THEN stop \o more ELSE more \o stop))

\* a repetition that consumed nothing is not repeated again
MatchMore(ms, k, r, n, s, p) ==
  IF k > Len(ms) THEN <<>>
  ELSE (IF ms[k].e > p THEN MatchRep(r, n, s, ms[k].e, ms[k].g) ELSE <<>>)
       \o MatchMore(ms, k + 1, r, n, s, p)

\* the first match of r in s at or after position p: <<start, way>>, or <<>>
SearchFrom(r, s, p) ==
  Let({q \in p..(Len(s) + 1) : Match(r, s, q, NoGroups) # <<>>}, LAMBDA starts :
  Let(CHOOSE q \in starts : \A x \in starts : q <= x, LAMBDA first :
     IF starts = {} THEN <<>> ELSE <<first, Match(r, s, first, NoGroups)[1]>>))

\* re.search(r, s) is not None
ReSearch(r, s) == SearchFrom(r, s, 1) # <<>>

\* what re.findall reports for one match: group 1 when the pattern has a
\* group (the empty string when the group took no part), else the match
FoundText(s, start, way, hasGroup) ==
  IF hasGroup
  THEN (IF 1 \in DOMAIN way.g
        THEN SubSeq(s, way.g[1][1], way.g[1][2] - 1) ELSE <<>>)
  ELSE SubSeq(s, start, way.e - 1)

\* re.findall(r, s): the non-overlapping matches, left to right
RECURSIVE FindAllFrom(_, _, _, _)
FindAllFrom(r, s, p, hasGroup) ==
  Let(SearchFrom(r, s, p), LAMBDA f :
     IF f = <<>> THEN <<>>
     ELSE <<FoundText(s, f[1], f[2], hasGroup)>>
          \o FindAllFrom(r, s, IF f[2].e = f[1] THEN f[1] + 1 ELSE f[2].e, hasGroup))

ReFindAll(r, s) == FindAllFrom(r, s, 1, FALSE)

ReFindAllGroup(r, s) == FindAllFrom(r, s, 1, TRUE)

\* re.sub(r, repl, s) for a replacement Repl(s, start, way) computed per match
RECURSIVE ReMatchesFrom(_, _, _)
ReMatchesFrom(r, s, p) ==
  Let(SearchFrom(r, s, p), LAMBDA f :
     IF f = <<>> THEN <<>>
     ELSE <<f>> \o ReMatchesFrom(r, s, IF f[2].e = f[1] THEN f[1] + 1 ELSE f[2].e))


\* the text of capture group n of a match (empty when the group took no part)
GroupText(s, way, n) ==
  IF n \in DOMAIN way.g THEN SubSeq(s, way.g[n][1], way.g[n][2] - 1) ELSE <<>>

\* re.sub: s with the k-th match of ms replaced by reps[k]
RECURSIVE SubstFrom(_, _, _, _, _)
SubstFrom(s, ms, reps, k, pos) ==
  IF k > Len(ms) THEN SubSeq(s, pos, Len(s))
  ELSE SubSeq(s, pos, ms[k][1] - 1) \o reps[k]
       \o SubstFrom(s, ms, reps, k + 1, ms[k][2].e)

\* re.sub(r, repl, s) with a constant replacement
ReSubConst(r, repl, s) ==
  Let(ReMatchesFrom(r, s, 1), LAMBDA ms :
     SubstFrom(s, ms, [k \in 1..Len(ms) |-> repl], 1, 1))

\* ------------------------------------------------------------------------
\* Data cleaning (extract_python.py and, the same text,
\* extract_data_deterministic.py)
\* ------------------------------------------------------------------------

AZ == {UpperLetters[i] : i \in 1..26}

\* the string constants of the sources
NA == <<"N","/","A">>

NullStr == <<"n","u","l","l">>

\* \d+\.?\d*
ReNumber == Cat(<<Plus(ReD), Opt(Ch({"."})), Star(ReD)>>)

\* re.sub(r'(\d+\.?\d*)\s*V<u>C', r'\1V <u>C', v, flags=re.IGNORECASE)
SubVoltUnit(v, u) ==
  Let(ReMatchesFrom(Cat(<<Grp(1, ReNumber), Star(ReS), LitCI(<<"V", u, "C">>)>>), v, 1), LAMBDA ms :
     SubstFrom(v, ms,
               [k \in 1..Len(ms) |-> GroupText(v, ms[k][2], 1) \o <<"V", " ", u, "C">>],
               1, 1))

\* re.sub(r'(\d+)\s*/\s*(\d+)', r'\1/\2', v)
SubSlash(v) ==
  Let(ReMatchesFrom(Cat(<<Grp(1, Plus(ReD)), Star(ReS), Ch({"/"}), Star(ReS),
                                Grp(2, Plus(ReD))>>), v, 1), LAMBDA ms :
     SubstFrom(v, ms,
               [k \in 1..Len(ms) |->
                  GroupText(v, ms[k][2], 1) \o <<"/">> \o GroupText(v, ms[k][2], 2)],
               1, 1))

\* a faulty standardize_voltage: its third and fourth pass take one
\* whitespace character after a V away, whatever follows
StandardizeTakingOneSpace(voltage_str) ==
  IF ~Truthy(voltage_str) THEN voltage_str
  ELSE Let(Strip(voltage_str), LAMBDA v0 :
       Let(SubVoltUnit(v0, "D"), LAMBDA v1 :
       Let(SubVoltUnit(v1, "A"), LAMBDA v2 :
       Let(ReSubConst(Cat(<<Lit(<<"V">>), ReS>>), <<"V">>, v2), LAMBDA v3 :
          SubSlash(v3)))))

standardize_voltage(voltage_str) ==
  IF ~Truthy(voltage_str) THEN voltage_str
  ELSE Let(Strip(voltage_str), LAMBDA v0 :
       Let(SubVoltUnit(v0, "D"), LAMBDA v1 :
       Let(SubVoltUnit(v1, "A"), LAMBDA v2 :
       Let(ReSubConst(Cat(<<Lit(<<"V">>), Plus(ReS), Lit(<<"D","C">>)>>),
                            <<"V"," ","D","C">>, v2), LAMBDA v3 :
       Let(ReSubConst(Cat(<<Lit(<<"V">>), Plus(ReS), Lit(<<"A","C">>)>>),
                            <<"V"," ","A","C">>, v3), LAMBDA v4 :
          SubSlash(v4))))))

\* The diameter sign as each source file spells it: extract_python.py holds
\* the two letters as the four characters U+00C3 U+02DC U+00C3 U+00B8,
\* extract_data_deterministic.py as U+00D8 and U+00F8.
DiaPython == {"Atilde", "tilde", "cedilla"}

DiaDeterministic == {"Oslash", "oslash"}

\* clean_dimension with the file's character class for the diameter sign
CleanDimensionWith(dim_str, dia) ==
  IF ~Truthy(dim_str) THEN dim_str
  ELSE Let(Strip(dim_str), LAMBDA d0 :
       Let(ReSubConst(Cat(<<Ch(dia), Star(ReS)>>), <<>>, d0), LAMBDA d1 :
       Let(ReSubConst(Cat(<<Star(ReS), LitCI(<<"m","m">>), WB>>), <<>>, d1), LAMBDA d2 :
          Strip(d2))))

clean_dimension(dim_str) == CleanDimensionWith(dim_str, DiaPython)

clean_dimension_det(dim_str) == CleanDimensionWith(dim_str, DiaDeterministic)

UPPERCASE_ACRONYMS ==
  {<<"L","E","D">>, <<"R","G","B">>, <<"S","M","D">>, <<"P","C","B">>,
   <<"A","C">>, <<"D","C">>, <<"I","P">>}

\* str.capitalize()
Capitalize(s) ==
  [i \in 1..Len(s) |-> IF i = 1 THEN ToUpper(s[i]) ELSE ToLower(s[i])]

proper_capitalize(value) ==
  IF ~Truthy(value) THEN value
  ELSE IF Upper(value) \in UPPERCASE_ACRONYMS THEN Upper(value)
  ELSE Capitalize(value)

LED_COLOR_CODES ==
  <<  <<<<"r","e","d">>, <<"R">>>>,
      <<<<"g","r","e","e","n">>, <<"G">>>>,
      <<<<"b","l","u","e">>, <<"B">>>>,
      <<<<"w","h","i","t","e">>, <<"W">>>>,
      <<<<"a","m","b","e","r">>, <<"A">>>>,
      <<<<"y","e","l","l","o","w">>, <<"Y">>>>,
      <<<<"o","r","a","n","g","e">>, <<"O">>>>,
      <<<<"c","l","e","a","r">>, <<"C">>>>,
      <<<<"w","a","r","m"," ","w","h","i","t","e">>, <<"W","W">>>>,
      <<<<"c","o","o","l"," ","w","h","i","t","e">>, <<"C","W">>>>,
      <<<<"p","i","n","k">>, <<"P">>>>,
      <<<<"p","u","r","p","l","e">>, <<"P","R">>>>,
      <<<<"b","i","-","c","o","l","o","r">>, <<"B","C">>>>,
      <<<<"r","g","b">>, <<"R","G","B">>>>,
      <<<<"m","u","l","t","i","c","o","l","o","r">>, <<"M","C">>>>  >>

get_color_code(color_name) ==
  Let(Strip(Lower(color_name)), LAMBDA color_lower :
  Let({i \in 1..Len(LED_COLOR_CODES) : LED_COLOR_CODES[i][1] = color_lower}, LAMBDA hit :
     IF hit # {} THEN LED_COLOR_CODES[CHOOSE i \in hit : TRUE][2]
     ELSE IF color_name # <<>> THEN <<ToUpper(color_name[1])>> ELSE <<"X">>))


\* "code:value"
CodeValue(code, value) == code \o <<":">> \o value

\* "{" + "|".join(items) + "}"
Braced(items) == <<"{">> \o Join(<<"|">>, items) \o <<"}">>

\* one item of clean_and_dedupe_values' loop: [code, value], the code None
\* when the item has no ':' (item.split(':', 1))
ParseItem(item, value_type) ==
  Let({i \in 1..Len(item) : item[i] = ":"}, LAMBDA colons :
  Let(CHOOSE i \in colons : \A j \in colons : i <= j, LAMBDA at :
  Let(IF colons = {} THEN PyNone ELSE Strip(SubSeq(item, 1, at - 1)), LAMBDA code :
  Let(IF colons = {} THEN item ELSE Strip(SubSeq(item, at + 1, Len(item))), LAMBDA raw :
  Let(IF value_type = "voltage" THEN standardize_voltage(raw)
               ELSE IF value_type = "dimension" THEN clean_dimension(raw)
               ELSE raw, LAMBDA value :
     [code |-> code, value |-> value])))))

RECURSIVE DedupeItems(_, _, _, _, _)
DedupeItems(items, k, value_type, cleaned_items, seen_values) ==
  IF k > Len(items) THEN cleaned_items
  ELSE Let(Strip(items[k]), LAMBDA item :
          IF item = <<>>
          THEN DedupeItems(items, k + 1, value_type, cleaned_items, seen_values)
          ELSE Let(ParseItem(item, value_type), LAMBDA it :
               Let(Lower(it.value), LAMBDA value_lower :
                  IF value_lower \in seen_values
                  THEN DedupeItems(items, k + 1, value_type, cleaned_items, seen_values)
                  ELSE DedupeItems(items, k + 1, value_type,
                         Append(cleaned_items,
                                IF Truthy(it.code) THEN CodeValue(it.code, it.value)
                                ELSE it.value),
                         seen_values \cup {value_lower}))))

clean_and_dedupe_values(values_str, value_type) ==
  IF ~Truthy(values_str) \/ values_str = NA THEN values_str
  ELSE Let(Match(Cat(<<Ch({"{"}), Grp(1, Plus(ReDot)), Ch({"}"})>>),
                       values_str, 1, NoGroups), LAMBDA ms :
          IF ms = <<>> THEN values_str
          ELSE Let(GroupText(values_str, ms[1], 1), LAMBDA content :
               Let(DedupeItems(Split(content, "|"), 1, value_type, <<>>, {}), LAMBDA cleaned_items :
                  IF cleaned_items = <<>> THEN NA ELSE Braced(cleaned_items))))

RECURSIVE CleanParts(_, _, _, _, _)
CleanParts(parts, k, dia, cleaned, seen) ==
  IF k > Len(parts) THEN cleaned
  ELSE Let(CleanDimensionWith(Strip(parts[k]), dia), LAMBDA cleaned_part :
          IF cleaned_part # <<>> /\ Lower(cleaned_part) \notin seen
          THEN CleanParts(parts, k + 1, dia, Append(cleaned, cleaned_part),
                          seen \cup {Lower(cleaned_part)})
          ELSE CleanParts(parts, k + 1, dia, cleaned, seen))

CleanMountingHoleWith(value, dia) ==
  IF ~Truthy(value) \/ value = NA THEN value
  ELSE Let(CleanParts(Split(value, "|"), 1, dia, <<>>, {}), LAMBDA cleaned :
          IF cleaned # <<>> THEN Join(<<"|">>, cleaned) ELSE NA)

clean_mounting_hole(value) == CleanMountingHoleWith(value, DiaPython)

clean_mounting_hole_det(value) == CleanMountingHoleWith(value, DiaDeterministic)

\* An exception that leaves a function, as a value in place of its result
IndexError == <<"IndexError">>

\* Path(filename).stem: the last path component without its last suffix
PathStem(filename) ==
  Let({i \in 1..Len(filename) : filename[i] = "/"}, LAMBDA slashes :
  Let(IF slashes = {} THEN 1
              ELSE 1 + CHOOSE i \in slashes : \A j \in slashes : j <= i, LAMBDA from :
  Let(SubSeq(filename, from, Len(filename)), LAMBDA name :
  Let({i \in 1..Len(name) : name[i] = "."}, LAMBDA dots :
  Let(CHOOSE i \in dots : \A j \in dots : j <= i, LAMBDA last :
     IF dots # {} /\ 1 < last /\ last < Len(name)
     THEN SubSeq(name, 1, last - 1) ELSE name)))))

\* The series name, or IndexError: basename.split()[0] of a stem that is
\* all whitespace
extract_series_from_filename(filename) ==
  Let(PathStem(filename), LAMBDA basename :
  Let(Match(Grp(1, Plus(ChCI(AZ \cup Digits))), basename, 1, NoGroups), LAMBDA ms :
     IF ms # <<>> THEN Upper(GroupText(basename, ms[1], 1))
     ELSE IF basename = <<>> THEN NA
     ELSE IF SplitWs(basename) = <<>> THEN IndexError
     ELSE Upper(SplitWs(basename)[1])))

\* ------------------------------------------------------------------------
\* Exhaustive search helpers
\* ------------------------------------------------------------------------

\* the concatenation of a sequence of sequences
RECURSIVE FlatCat(_)
FlatCat(ss) == IF ss = <<>> THEN <<>> ELSE Head(ss) \o FlatCat(Tail(ss))

\* dict[key] = value on a dict kept in insertion order
DictSet(d, key, value) ==
  IF \E i \in 1..Len(d) : d[i][1] = key
  THEN [i \in 1..Len(d) |-> IF d[i][1] = key THEN <<key, value>> ELSE d[i]]
  ELSE Append(d, <<key, value>>)

\* list.append(x) if x is not in the list
AddNew(list, x) == IF x \in Range(list) THEN list ELSE Append(list, x)

\* the rows the loops "for table in tables: for row in table" visit, in
\* order, with the table each row belongs to
RECURSIVE RowsOf(_, _)
RowsOf(tables, t) ==
  IF t > Len(tables) THEN <<>>
  ELSE (IF tables[t] = PyNone THEN <<>>
        ELSE SelectSeq([r \in 1..Len(tables[t]) |-> [t |-> t, row |-> tables[t][r]]],
                       LAMBDA x : x.row # <<>>))
       \o RowsOf(tables, t + 1)

\* ' '.join([str(c).lower() if c else '' for c in row])
RowText(row) ==
  Join(<<" ">>, [i \in 1..Len(row) |-> IF Truthy(row[i]) THEN Lower(row[i]) ELSE <<>>])

\* an adjacent cell that exhaustive_table_search takes as a code
IsTableCode(cell) ==
  Let(Strip(cell), LAMBDA c :
     Len(c) <= 3 /\ IsAlpha(ReplaceChar(c, "*", <<>>)))

\* the (row, cell, value) triples exhaustive_table_search acts on, in the
\* order of its loops: rows, then the values found in the row, then cells
TableHits(tables, value_list) ==
  Let(RowsOf(tables, 1), LAMBDA rows :
  LET OfValue(row, value) == 
        IF ~Contains(Lower(value), RowText(row)) THEN <<>>
        ELSE FlatCat([i \in 1..Len(row) |->
               IF Truthy(row[i]) /\ Contains(Lower(value), Lower(Strip(row[i])))
               THEN <<[row |-> row, i |-> i, value |-> value]>> ELSE <<>>])
  IN
  LET OfRow(row) == FlatCat([v \in 1..Len(value_list) |-> OfValue(row, value_list[v])])
  IN
     FlatCat([r \in 1..Len(rows) |-> OfRow(rows[r].row)]))

RECURSIVE TableSearch(_, _, _, _)
TableSearch(hits, k, find_codes, st) ==
  IF k > Len(hits) THEN st
  ELSE Let(hits[k].row, LAMBDA row :
       Let(hits[k].i, LAMBDA i :
       Let(hits[k].value, LAMBDA value :
       Let(IF find_codes /\ i > 1 /\ Truthy(row[i - 1]) /\ IsTableCode(row[i - 1])
                 THEN DictSet(st.found_codes, Upper(Strip(row[i - 1])),
                              proper_capitalize(value))
                 ELSE st.found_codes, LAMBDA c1 :
       Let(IF find_codes /\ i < Len(row) /\ Truthy(row[i + 1]) /\ IsTableCode(row[i + 1])
                 THEN DictSet(c1, Upper(Strip(row[i + 1])), proper_capitalize(value))
                 ELSE c1, LAMBDA c2 :
          TableSearch(hits, k + 1, find_codes,
            [found_codes |-> c2,
             found_values |-> AddNew(st.found_values, proper_capitalize(value))]))))))

exhaustive_table_search(tables, value_list, find_codes) ==
  TableSearch(TableHits(tables, value_list), 1, find_codes,
              [found_codes |-> <<>>, found_values |-> <<>>])

\* all_matches after the matches of one pattern
RECURSIVE AddMatches(_, _, _)
AddMatches(matches, k, all_matches) ==
  IF k > Len(matches) THEN all_matches
  ELSE Let(Strip(matches[k]), LAMBDA match_clean :
          AddMatches(matches, k + 1,
            IF match_clean # <<>> THEN AddNew(all_matches, match_clean) ELSE all_matches))

RECURSIVE TextSearch(_, _, _, _)
TextSearch(text, patterns, k, all_matches) ==
  IF k > Len(patterns) THEN all_matches
  ELSE TextSearch(text, patterns, k + 1,
                  AddMatches(ReFindAll(patterns[k], text), 1, all_matches))

exhaustive_text_search(text, patterns) == TextSearch(text, patterns, 1, <<>>)


\* ------------------------------------------------------------------------
\* AI output: JSON values and their normalization (extract_ai.py)
\* ------------------------------------------------------------------------

\* A parsed JSON value: its kind and, by kind, the characters of a string,
\* the digits of a number, the items of an array or the <<key, value>>
\* members of an object in order
JNull == [kind |-> "null", val |-> <<>>]

JStr(s) == [kind |-> "str", val |-> s]

JNum(digits) == [kind |-> "num", val |-> digits]

JArr(items) == [kind |-> "arr", val |-> items]

JObj(members) == [kind |-> "obj", val |-> members]

AttributeError == <<"AttributeError">>

target_columns ==
  <<"SERIES", "MODEL_CODE", "MOUNTING HOLE", "BEZEL STYLE", "TERMINALS",
    "BEZEL FINISH", "TYPE OF ILLUMINATION", "LED COLOR", "VOLTAGE", "SEALING">>

key_mapping ==
  [k \in {"MODEL_CODE", "SERIES", "MOUNTING_HOLE", "BEZEL_STYLE", "TERMINALS",
          "BEZEL_FINISH", "TYPE_OF_ILLUMINATION", "LED_COLOR", "VOLTAGE", "SEALING"} |->
     CASE k = "MOUNTING_HOLE" -> "MOUNTING HOLE"
       [] k = "BEZEL_STYLE" -> "BEZEL STYLE"
       [] k = "BEZEL_FINISH" -> "BEZEL FINISH"
       [] k = "TYPE_OF_ILLUMINATION" -> "TYPE OF ILLUMINATION"
       [] k = "LED_COLOR" -> "LED COLOR"
       [] OTHER -> k]

\* value in [None, "null", "", "N/A"]
IsAbsentJson(value) ==
  \/ value.kind = "null"
  \/ value.kind = "str" /\ value.val \in {NullStr, <<>>, NA}

\* str(value) of a JSON string or integer
PyStr(value) == value.val

\* the body of "for key, value in product.items()"
RECURSIVE NormalizeItems(_, _, _)
NormalizeItems(members, k, normalized) ==
  IF k > Len(members) THEN normalized
  ELSE Let(members[k][1], LAMBDA key :
       Let(members[k][2], LAMBDA value :
          IF IsAbsentJson(value) \/ key \notin DOMAIN key_mapping
          THEN NormalizeItems(members, k + 1, normalized)
          ELSE NormalizeItems(members, k + 1,
                 [normalized EXCEPT ![key_mapping[key]] = PyStr(value)])))

\* the normalized products, or AttributeError raised at the first product
\* that has no items(): anything but a JSON object
RECURSIVE NormalizeFrom(_, _, _)
NormalizeFrom(products, k, normalized_products) ==
  IF k > Len(products) THEN Return(normalized_products)
  ELSE IF products[k].kind # "obj" THEN Raise(AttributeError)
  ELSE NormalizeFrom(products, k + 1,
         Append(normalized_products,
                NormalizeItems(products[k].val, 1,
                               [col \in Range(target_columns) |-> PyNone])))

normalize_ai_output(products) == NormalizeFrom(products, 1, <<>>)

\* ------------------------------------------------------------------------
\* Merge engine (merge_results.py)
\* ------------------------------------------------------------------------

garbage ==
  <<<<"C","I","R","C","U","I","T">>,
    <<"E","X","A","M","P","L","E">>,
    <<"N","O","T","E">>,
    <<"F","I","G","U","R","E">>,
    <<"T","A","B","L","E">>,
    <<"P","A","G","E">>,
    <<"D","I","M","E","N","S","I","O","N">>,
    <<"S","P","E","C","I","F","I","C","A","T","I","O","N">>,
    <<"M","O","U","N","T","I","N","G">>,
    <<"T","E","R","M","I","N","A","L">>>>

MinCodeLen == 5

MaxCodeLen == 30

validate_model_code(code, series_name) ==
  IF ~Truthy(code) THEN FALSE
  ELSE Let(Upper(Strip(code)), LAMBDA c :
          /\ ~(Len(c) < MinCodeLen \/ Len(c) > MaxCodeLen)
          /\ ~Contains(<<" ">>, c)
          /\ \A i \in 1..Len(garbage) : ~Contains(garbage[i], c)
          /\ \E i \in 1..Len(c) : IsAlphaChar(c[i])
          /\ \E i \in 1..Len(c) : IsDigitChar(c[i]))

\* value in [None, "", "null", "N/A"]
IsSentinel(value) == value \in {PyNone, <<>>, NullStr, NA}

\* a or b
PyOr(a, b) == IF Truthy(a) THEN a ELSE b

\* a faulty SeenKey: the code is remembered as written
SeenKeyExact(model_code) == model_code

\* the key under which an accepted code is remembered in seen_codes
SeenKey(model_code) == Upper(model_code)

\* a faulty PreferPython: the value of the AI is preferred
PreferAi(py_val, ai_val) ==
  IF Truthy(ai_val) /\ ~IsSentinel(ai_val) THEN ai_val
  ELSE IF Truthy(py_val) /\ ~IsSentinel(py_val) THEN py_val
  ELSE PyNone

\* product[col] for a column other than MODEL_CODE and SERIES
PreferPython(py_val, ai_val) ==
  IF Truthy(py_val) /\ ~IsSentinel(py_val) THEN py_val
  ELSE IF Truthy(ai_val) /\ ~IsSentinel(ai_val) THEN ai_val
  ELSE PyNone

\* the product built for an accepted candidate
BuildProduct(ai_prod, model_code, specs, series_name) ==
  [col \in Range(target_columns) |->
     IF col = "MODEL_CODE" THEN model_code
     ELSE IF col = "SERIES"
          THEN PyOr(Get(specs, "SERIES"), PyOr(Get(ai_prod, "SERIES"), series_name))
     ELSE PreferPython(Get(specs, col), Get(ai_prod, col))]

\* "for ai_prod in ai_products"
RECURSIVE FilterProducts(_, _, _, _, _, _)
FilterProducts(ai_products, k, specs, series_name, products, seen_codes) ==
  IF k > Len(ai_products) THEN products
  ELSE Let(ai_products[k], LAMBDA ai_prod :
       Let(Get(ai_prod, "MODEL_CODE"), LAMBDA model_code :
          IF ~Truthy(model_code) \/ SeenKey(model_code) \in seen_codes
          THEN FilterProducts(ai_products, k + 1, specs, series_name, products, seen_codes)
          ELSE IF ~validate_model_code(model_code, series_name)
          THEN FilterProducts(ai_products, k + 1, specs, series_name, products, seen_codes)
          ELSE FilterProducts(ai_products, k + 1, specs, series_name,
                 Append(products, BuildProduct(ai_prod, model_code, specs, series_name)),
                 seen_codes \cup {SeenKey(model_code)})))

Unknown == <<"U","n","k","n","o","w","n">>

\* a faulty FallbackProduct: MODEL_CODE is not defaulted to the series
FallbackWithoutCode(specs) ==
  [col \in Range(target_columns) |->
     IF IsSentinel(Get(specs, col)) THEN PyNone ELSE specs[col]]

\* the single row built from the specs when no candidate was accepted
FallbackProduct(specs) ==
  Let([col \in Range(target_columns) |->
                    IF IsSentinel(Get(specs, col)) THEN PyNone ELSE specs[col]], LAMBDA product :
     IF ~Truthy(product["MODEL_CODE"])
     THEN [product EXCEPT !["MODEL_CODE"] = GetOr(specs, "SERIES", Unknown)]
     ELSE product)

\* python_specs is {'specs': ..., 'model_codes': ...} or the specs themselves
SpecsOf(python_specs) ==
  IF "specs" \in DOMAIN python_specs THEN python_specs["specs"] ELSE python_specs

\* a faulty merge_ai_with_python_filter: the accepted products are returned
\* newest first
MergeNewestFirst(ai_products, python_specs, series_name) ==
  Let(SpecsOf(python_specs), LAMBDA specs :
  Let(FilterProducts(ai_products, 1, specs, series_name, <<>>, {}), LAMBDA products :
     IF products = <<>> THEN <<FallbackProduct(specs)>>
     ELSE [k \in 1..Len(products) |-> products[Len(products) + 1 - k]]))

merge_ai_with_python_filter(ai_products, python_specs, series_name) ==
  Let(SpecsOf(python_specs), LAMBDA specs :
  Let(FilterProducts(ai_products, 1, specs, series_name, <<>>, {}), LAMBDA products :
     IF products = <<>> THEN <<FallbackProduct(specs)>> ELSE products))

\* str(val) of each column; the merged values are None or str, never list
format_for_output(products) ==
  [i \in 1..Len(products) |->
     [col \in Range(target_columns) |-> Get(products[i], col)]]

\* a faulty merge_product_data: when no candidate was accepted the codes the
\* heuristic extractor discovered make the products
MergeWithHeuristicCodes(ai_products, python_data) ==
  Let(SpecsOf(python_data), LAMBDA specs :
  Let(GetOr(specs, "SERIES", <<>>), LAMBDA series :
  Let(GetOr(python_data, "model_codes", <<>>), LAMBDA codes :
     IF FilterProducts(ai_products, 1, specs, series, <<>>, {}) = <<>> /\ codes # <<>>
     THEN [k \in 1..Len(codes) |->
             [FallbackProduct(specs) EXCEPT !["MODEL_CODE"] = codes[k]]]
     ELSE merge_ai_with_python_filter(ai_products, python_data, series))))

merge_product_data(ai_products, python_data) ==
  merge_ai_with_python_filter(ai_products, python_data,
                              GetOr(SpecsOf(python_data), "SERIES", <<>>))

\* ------------------------------------------------------------------------
\* Field extractors (extract_python.py and extract_data_deterministic.py)
\* ------------------------------------------------------------------------

DigitSeq == <<"0","1","2","3","4","5","6","7","8","9">>

\* int(digits)
RECURSIVE DigitsToInt(_)
DigitsToInt(ds) ==
  IF ds = <<>> THEN 0
  ELSE 10 * DigitsToInt(SubSeq(ds, 1, Len(ds) - 1))
       + (CHOOSE n \in 0..9 : DigitSeq[n + 1] = ds[Len(ds)])

\* lo <= float(num) <= hi for the first number in m (re.search of
\* (\d+\.?\d*)), false when m has no number
NumberBetween(m, lo, hi) ==
  Let(SearchFrom(ReNumber, m, 1), LAMBDA f :
  Let(SubSeq(m, f[1], f[2].e - 1), LAMBDA num :
  Let(Split(num, "."), LAMBDA parts :
  Let(DigitsToInt(parts[1]), LAMBDA whole :
  Let(IF Len(parts) > 1 THEN parts[2] ELSE <<>>, LAMBDA frac :
     /\ f # <<>>
     /\ lo <= whole
     /\ \/ whole < hi
        \/ whole = hi /\ \A i \in 1..Len(frac) : frac[i] = "0")))))

\* \s*
ReSs == Star(ReS)

\* the six mounting hole patterns under re.IGNORECASE, for the diameter
\* signs and the multiplication signs the source file has in its classes
MountingPatterns(dia, xs) ==
  <<[re |-> Cat(<<ChCI(dia), ReSs, ReNumber, ReSs, LitCI(<<"m","m">>)>>), grp |-> FALSE],
    [re |-> Cat(<<ChCI(dia), ReSs, ReNumber>>), grp |-> FALSE],
    [re |-> Cat(<<ReNumber, ReSs, LitCI(<<"m","m">>), ReSs, ChCI(xs), ReSs,
                  ReNumber, ReSs, LitCI(<<"m","m">>)>>), grp |-> FALSE],
    [re |-> Cat(<<ReNumber, ReSs, LitCI(<<"t","o">>), ReSs, ReNumber, ReSs, LitCI(<<"m","m">>)>>),
     grp |-> FALSE],
    [re |-> Cat(<<ReNumber, ReSs, LitCI(<<"t","o">>), ReSs, ReNumber>>), grp |-> FALSE],
    [re |-> Cat(<<LitCI(<<"p","a","n","e","l">>), ReSs, LitCI(<<"c","u","t">>), Opt(Ch({"-", " "})),
                  LitCI(<<"o","u","t">>), Star(Ch({":"} \cup Whitespace)),
                  Grp(1, Cat(<<Opt(ChCI(dia)), ReSs, ReNumber>>))>>), grp |-> TRUE]>>

mounting_keywords ==
  <<<<"p","a","n","e","l"," ","c","u","t","-","o","u","t">>, <<"p","a","n","e","l"," ","c","u","t","o","u","t">>, <<"p","a","n","e","l"," ","c","u","t"," ","o","u","t">>,
    <<"m","o","u","n","t","i","n","g"," ","h","o","l","e">>, <<"m","o","u","n","t","i","n","g">>, <<"c","u","t","-","o","u","t">>, <<"c","u","t","o","u","t">>,
    <<"p","a","n","e","l"," ","h","o","l","e">>, <<"h","o","l","e"," ","d","i","a","m","e","t","e","r">>, <<"h","o","l","e"," ","s","i","z","e">>>>

\* re.findall of each pattern in turn over one string
FindAllPatterns(patterns, s) ==
  FlatCat([k \in 1..Len(patterns) |-> FindAllFrom(patterns[k].re, s, 1, patterns[k].grp)])

\* add_value over the matches ms in order
RECURSIVE AddValues(_, _, _, _)
AddValues(ms, k, normDia, st) ==
  IF k > Len(ms) THEN st
  ELSE Let(ms[k], LAMBDA val :
       Let(SelectSeq(Lower(val), LAMBDA c : c \notin normDia \cup Whitespace), LAMBDA stripped :
       Let(ReSubConst(Lit(<<"m","m">>), <<>>, stripped), LAMBDA norm :
          IF norm # <<>> /\ norm \notin st.seen_normalized
          THEN AddValues(ms, k + 1, normDia,
                 [found_values |-> Append(st.found_values, val),
                  seen_normalized |-> st.seen_normalized \cup {norm}])
          ELSE AddValues(ms, k + 1, normDia, st))))

\* the matches the table pass hands to add_value, in order
MountingTableMatches(tables, patterns) ==
  Let(RowsOf(tables, 1), LAMBDA rows :
  LET OfRow(row) == 
        Let(\E i \in 1..Len(mounting_keywords) :
                              Contains(mounting_keywords[i], RowText(row)), LAMBDA has_keyword :
           FlatCat([i \in 1..Len(row) |->
             IF ~Truthy(row[i]) THEN <<>>
             ELSE SelectSeq(FindAllPatterns(patterns, row[i]),
                            LAMBDA m : SearchFrom(ReNumber, m, 1) # <<>>
                                       /\ (has_keyword \/ NumberBetween(m, 8, 35)))]))
  IN
     FlatCat([r \in 1..Len(rows) |-> OfRow(rows[r].row)]))

MountingHoleWith(text, tables, dia, xs, normDia, cleanDia, notFound) ==
  Let(MountingPatterns(dia, xs), LAMBDA patterns :
  Let(SelectSeq(FindAllPatterns(patterns, text),
                            LAMBDA m : NumberBetween(m, 5, 50)), LAMBDA fromText :
  Let(AddValues(fromText \o MountingTableMatches(tables, patterns), 1, normDia,
                      [found_values |-> <<>>, seen_normalized |-> {}]), LAMBDA st :
  Let(st.found_values, LAMBDA found_values :
     IF found_values # <<>>
     THEN CleanMountingHoleWith(
            Join(<<"|">>, SubSeq(found_values, 1, IF Len(found_values) < 8
                                                  THEN Len(found_values) ELSE 8)),
            cleanDia)
     ELSE notFound))))

extract_mounting_hole(text, tables) ==
  MountingHoleWith(text, tables, {"Atilde", "tilde", "cedilla"}, {"X", "Atilde", "emdash"},
                   {"Atilde", "cedilla", "tilde"}, DiaPython, NA)

extract_mounting_hole_det(text, tables) ==
  MountingHoleWith(text, tables, {"Oslash"}, {"X", "times"},
                   {"oslash", "Oslash"}, DiaDeterministic, PyNone)

\* seq[:n]
Take(seq, n) == SubSeq(seq, 1, IF Len(seq) < n THEN Len(seq) ELSE n)

\* (?:DC|AC) and (?:VDC|VAC) under re.IGNORECASE
ReDcAc == Alt(<<LitCI(<<"D","C">>), LitCI(<<"A","C">>)>>)

ReVdcVac == Alt(<<LitCI(<<"V","D","C">>), LitCI(<<"V","A","C">>)>>)

\* the five voltage patterns, for the dash class of the source file
VoltagePatterns(dashes) ==
  <<Cat(<<ReNumber, ReSs, Ch({"/"}), ReSs, ReNumber, ReSs, ChCI({"V"}), ReSs, ReDcAc>>),
    Cat(<<ReNumber, ReSs, ChCI({"V"}), ReSs, ReDcAc>>),
    Cat(<<ReNumber, ReSs, ReVdcVac>>),
    Cat(<<ReNumber, ReSs, LitCI(<<"t","o">>), ReSs, ReNumber, ReSs, ChCI({"V"}), ReSs, ReDcAc>>),
    Cat(<<ReNumber, ChCI(dashes), ReNumber, ReSs, ChCI({"V"}), ReSs, ReDcAc>>)>>

\* the matches of "for row ... for i, cell ... for pattern ... for match",
\* in order, each with its row and cell index
TableMatches(tables, patterns) ==
  Let(RowsOf(tables, 1), LAMBDA rows :
  LET OfCell(row, i) == 
        IF ~Truthy(row[i]) THEN <<>>
        ELSE Let(FlatCat([k \in 1..Len(patterns) |-> ReFindAll(patterns[k], row[i])]), LAMBDA ms :
                [j \in 1..Len(ms) |-> [row |-> row, i |-> i, m |-> ms[j]]])
  IN
  LET OfRow(row) == FlatCat([i \in 1..Len(row) |-> OfCell(row, i)])
  IN
     FlatCat([r \in 1..Len(rows) |-> OfRow(rows[r].row)]))

\* a voltage the loops keep: non-empty and not starting with '000'
KeptVoltage(match_clean) ==
  Truthy(match_clean) /\ ~StartsWith(match_clean, <<"0","0","0">>)

AddVoltage(found_voltages, match_clean) ==
  IF Lower(match_clean) \notin {Lower(found_voltages[i]) : i \in 1..Len(found_voltages)}
  THEN Append(found_voltages, match_clean) ELSE found_voltages

RECURSIVE VoltageText(_, _, _)
VoltageText(all_matches, k, found_voltages) ==
  IF k > Len(all_matches) THEN found_voltages
  ELSE Let(standardize_voltage(all_matches[k]), LAMBDA match_clean :
          VoltageText(all_matches, k + 1,
            IF KeptVoltage(match_clean) THEN AddVoltage(found_voltages, match_clean)
            ELSE found_voltages))

\* an adjacent cell taken as the code of a voltage
IsVoltageCode(cell) == Len(Strip(cell)) <= 3 /\ IsAlnum(Strip(cell))

RECURSIVE VoltageTable(_, _, _)
VoltageTable(ms, k, st) ==
  IF k > Len(ms) THEN st
  ELSE Let(ms[k].row, LAMBDA row :
       Let(ms[k].i, LAMBDA i :
       Let(standardize_voltage(Strip(ms[k].m)), LAMBDA match_clean :
       Let(IF i > 1 /\ Truthy(row[i - 1]) /\ IsVoltageCode(row[i - 1])
                 THEN DictSet(st.voltage_codes, Upper(Strip(row[i - 1])), match_clean)
                 ELSE st.voltage_codes, LAMBDA c1 :
       Let(IF i < Len(row) /\ Truthy(row[i + 1]) /\ IsVoltageCode(row[i + 1])
                 THEN DictSet(c1, Upper(Strip(row[i + 1])), match_clean)
                 ELSE c1, LAMBDA c2 :
          VoltageTable(ms, k + 1,
            IF KeptVoltage(match_clean)
            THEN [found_voltages |-> AddVoltage(st.found_voltages, match_clean),
                  voltage_codes |-> c2]
            ELSE st))))))

\* "|".join([f"{code}:{val}" for code, val in codes.items()])
CodedItems(codes) == [i \in 1..Len(codes) |-> CodeValue(codes[i][1], codes[i][2])]

VoltageWith(text, tables, dashes, notFound) ==
  Let(VoltagePatterns(dashes), LAMBDA patterns :
  Let(VoltageTable(TableMatches(tables, patterns), 1,
              [found_voltages |-> VoltageText(exhaustive_text_search(text, patterns), 1, <<>>),
               voltage_codes |-> <<>>]), LAMBDA st :
     IF st.voltage_codes # <<>>
     THEN clean_and_dedupe_values(Braced(CodedItems(st.voltage_codes)), "voltage")
     ELSE IF st.found_voltages # <<>>
     THEN clean_and_dedupe_values(Braced(Take(st.found_voltages, 12)), "voltage")
     ELSE notFound))

extract_voltage(text, tables) ==
  VoltageWith(text, tables, {"-", "acirc", "euro", "ldquo"}, NA)

extract_voltage_det(text, tables) == VoltageWith(text, tables, {"-", "endash"}, PyNone)

\* IP\s*\d{2}[A-Z]? and IP\s*\d{2} under re.IGNORECASE
SealingPatterns ==
  <<Cat(<<LitCI(<<"I","P">>), ReSs, ReD, ReD, Opt(ChCI(AZ))>>),
    Cat(<<LitCI(<<"I","P">>), ReSs, ReD, ReD>>)>>

\* match.replace(' ', '').upper()
Rating(match) == Upper(ReplaceChar(match, " ", <<>>))

RECURSIVE SealingText(_, _, _)
SealingText(all_matches, k, found_ratings) ==
  IF k > Len(all_matches) THEN found_ratings
  ELSE Let(Rating(all_matches[k]), LAMBDA rating :
          SealingText(all_matches, k + 1,
            IF rating # <<>> THEN AddNew(found_ratings, rating) ELSE found_ratings))

RECURSIVE SealingTable(_, _, _)
SealingTable(ms, k, st) ==
  IF k > Len(ms) THEN st
  ELSE Let(ms[k].row, LAMBDA row :
       Let(ms[k].i, LAMBDA i :
       Let(Rating(ms[k].m), LAMBDA rating :
       Let(Strip(row[i - 1]), LAMBDA code :
          SealingTable(ms, k + 1,
            [found_ratings |-> IF rating # <<>> THEN AddNew(st.found_ratings, rating)
                               ELSE st.found_ratings,
             rating_codes |-> IF i > 1 /\ Truthy(row[i - 1]) /\ Len(code) <= 2 /\ IsAlpha(code)
                              THEN DictSet(st.rating_codes, Upper(code), rating)
                              ELSE st.rating_codes])))))

SealingWith(text, tables, notFound) ==
  Let(SealingTable(TableMatches(tables, SealingPatterns), 1,
              [found_ratings |-> SealingText(exhaustive_text_search(text, SealingPatterns), 1, <<>>),
               rating_codes |-> <<>>]), LAMBDA st :
     IF st.rating_codes # <<>> THEN Braced(CodedItems(st.rating_codes))
     ELSE IF st.found_ratings # <<>>
     THEN Braced([i \in 1..Len(st.found_ratings) |-> CodeValue(<<"E">>, st.found_ratings[i])])
     ELSE notFound)

extract_sealing(text, tables) == SealingWith(text, tables, NA)

extract_sealing_det(text, tables) == SealingWith(text, tables, PyNone)

colors ==
  <<<<"r","e","d">>, <<"g","r","e","e","n">>, <<"a","m","b","e","r">>, <<"y","e","l","l","o","w">>, <<"w","h","i","t","e">>, <<"b","l","u","e">>,
    <<"o","r","a","n","g","e">>, <<"w","a","r","m"," ","w","h","i","t","e">>, <<"c","o","o","l"," ","w","h","i","t","e">>, <<"p","i","n","k">>,
    <<"p","u","r","p","l","e">>, <<"b","i","-","c","o","l","o","r">>, <<"r","g","b">>, <<"m","u","l","t","i","c","o","l","o","r">>>>

table_context_keywords ==
  <<<<"l","e","d">>, <<"c","o","l","o","r">>, <<"c","o","l","o","u","r">>, <<"l","a","m","p">>, <<"l","e","n","s">>, <<"i","n","d","i","c","a","t","o","r">>,
    <<"c","a","p">>, <<"l","i","g","h","t">>, <<"b","a","c","k","l","i","g","h","t">>, <<"i","l","l","u","m","i","n","a","t","i","o","n">>>>

HasContext(row_text) ==
  \E i \in 1..Len(table_context_keywords) : Contains(table_context_keywords[i], row_text)

is_valid_color_code(code_str) ==
  Let(ReplaceChar(ReplaceChar(code_str, "*", <<>>), "-", <<>>), LAMBDA clean :
     1 <= Len(clean) /\ Len(clean) <= 2 /\ IsAlpha(clean) /\ IsUpperStr(clean))

\* the cell names the color
CellHasColor(cell_lower, color) ==
  \/ cell_lower = color
  \/ cell_lower = ReplaceChar(color, " ", <<>>)
  \/ Contains(color, cell_lower) /\ Len(cell_lower) <= Len(color) + 5

\* the code next to cell i of the row, or None
AdjacentColorCode(row, i) ==
  Let(Upper(Strip(row[i - 1])), LAMBDA prev :
  Let(Upper(Strip(row[i + 1])), LAMBDA next_c :
     IF i > 1 /\ Truthy(row[i - 1]) /\ is_valid_color_code(prev) THEN prev
     ELSE IF i < Len(row) /\ Truthy(row[i + 1]) /\ is_valid_color_code(next_c) THEN next_c
     ELSE PyNone))

\* the (cell, color) pairs the table pass of extract_led_color acts on, in
\* order, each with the code found next to the cell
ColorTableHits(tables) ==
  Let(SelectSeq(RowsOf(tables, 1), LAMBDA x : Len(x.row) >= 2), LAMBDA rows :
  LET OfCell(t, row, i) == 
        IF ~Truthy(row[i]) THEN <<>>
        ELSE Let(Lower(Strip(row[i])), LAMBDA cell_lower :
             Let(AdjacentColorCode(row, i), LAMBDA code :
             Let(HasContext(RowText(tables[t][1])) \/ HasContext(RowText(row)), LAMBDA context :
                IF code = PyNone /\ ~context THEN <<>>
                ELSE [k \in 1..Len(SelectSeq(colors, LAMBDA c : CellHasColor(cell_lower, c))) |->
                        [code |-> code,
                         color |-> SelectSeq(colors, LAMBDA c : CellHasColor(cell_lower, c))[k]]])))
  IN
  LET OfRow(x) == FlatCat([i \in 1..Len(x.row) |-> OfCell(x.t, x.row, i)])
  IN
     FlatCat([r \in 1..Len(rows) |-> OfRow(rows[r])]))

RECURSIVE ColorTable(_, _, _)
ColorTable(hits, k, st) ==
  IF k > Len(hits) THEN st
  ELSE ColorTable(hits, k + 1,
         [found_codes |-> IF hits[k].code # PyNone
                          THEN DictSet(st.found_codes, hits[k].code,
                                       proper_capitalize(hits[k].color))
                          ELSE st.found_codes,
          found_colors |-> AddNew(st.found_colors, proper_capitalize(hits[k].color))])

\* \s+
ReSp == Plus(ReS)

\* the text patterns of extract_python.extract_led_color for one color
ColorPatterns(color) ==
  <<Cat(<<WB, Lit(color), ReSp, Lit(<<"l","e","d">>), WB>>),
    Cat(<<WB, Lit(<<"l","e","d">>), ReSp, Lit(color), WB>>),
    Cat(<<WB, Lit(<<"b","a","c","k","l","i","g","h","t">>), ReSp, Lit(color), WB>>),
    Cat(<<WB, Lit(color), ReSp, Lit(<<"b","a","c","k","l","i","g","h","t">>), WB>>),
    Cat(<<WB, Lit(color), ReSp, Lit(<<"i","n","d","i","c","a","t","o","r">>), WB>>),
    Cat(<<WB, Lit(color), ReSp, Lit(<<"l","a","m","p">>), WB>>),
    Cat(<<WB, Lit(color), ReSp, Lit(<<"l","e","n","s">>), WB>>),
    Cat(<<WB, Lit(<<"i","l","l","u","m","i","n","a","t">>), Plus(ReW), LazyRep(ReDot, 0, -1), WB, Lit(color), WB>>),
    Cat(<<WB, Lit(<<"c","o","l","o","r">>), Plus(Ch({":"} \cup Whitespace)), Lit(color), WB>>),
    Cat(<<WB, Lit(color), ReSp, Lit(<<"c","a","p">>), WB>>),
    Cat(<<Lit(<<"c","o","l","o","r","e","d">>), ReSp, Lit(<<"c","a","p">>), LazyRep(ReDot, 0, -1), Lit(color)>>)>>

\* the text patterns of extract_data_deterministic.extract_led_color
ColorPatternsDet(color) ==
  <<Cat(<<WB, Lit(color), ReSp, Lit(<<"l","e","d">>), WB>>),
    Cat(<<WB, Lit(<<"l","e","d">>), ReSp, Lit(color), WB>>),
    Cat(<<WB, Lit(color), ReSp, Lit(<<"i","n","d","i","c","a","t","o","r">>), WB>>),
    Cat(<<WB, Lit(color), ReSp, Lit(<<"l","a","m","p">>), WB>>),
    Cat(<<WB, Lit(color), ReSp, Lit(<<"l","e","n","s">>), WB>>),
    Cat(<<WB, Lit(<<"c","o","l","o","r">>), Plus(Ch({":"} \cup Whitespace)), Lit(color), WB>>)>>

\* found_colors after the text pass: a color is added when any of its
\* patterns is found in the text
RECURSIVE ColorText(_, _, _, _)
ColorText(text_lower, det, c, found_colors) ==
  IF c > Len(colors) THEN found_colors
  ELSE Let(IF det THEN ColorPatternsDet(colors[c]) ELSE ColorPatterns(colors[c]), LAMBDA patterns :
          ColorText(text_lower, det, c + 1,
            IF \E k \in 1..Len(patterns) : ReSearch(patterns[k], text_lower)
            THEN AddNew(found_colors, proper_capitalize(colors[c]))
            ELSE found_colors))

\* pattern[:\s]*(.*?)(?=\n\n|\Z) under re.IGNORECASE | re.DOTALL
OrderingPattern(words) ==
  Cat(<<Cat([i \in 1..Len(words) |->
              IF i = 1 THEN LitCI(words[i]) ELSE Cat(<<ReSp, LitCI(words[i])>>)]),
        Star(Ch({":"} \cup Whitespace)),
        Grp(1, LazyRep(ReDotAll, 0, -1)),
        Look(Alt(<<Lit(<<"\n", "\n">>), EndZ>>))>>)

ordering_patterns ==
  <<OrderingPattern(<<<<"o","r","d","e","r","i","n","g">>, <<"i","n","f","o","r","m","a","t","i","o","n">>>>),
    OrderingPattern(<<<<"p","a","r","t">>, <<"n","u","m","b","e","r">>>>),
    OrderingPattern(<<<<"m","o","d","e","l">>, <<"n","u","m","b","e","r">>>>),
    OrderingPattern(<<<<"h","o","w">>, <<"t","o">>, <<"o","r","d","e","r">>>>)>>

search_ordering_info(text, tables) ==
  Let(FlatCat([k \in 1..Len(ordering_patterns) |->
                            ReFindAllGroup(ordering_patterns[k], text)]), LAMBDA matches :
     FlatCat([k \in 1..Len(matches) |-> <<" ">> \o matches[k]]))

RECURSIVE ColorOrdering(_, _, _)
ColorOrdering(ordering_text, c, found_colors) ==
  IF c > Len(colors) THEN found_colors
  ELSE ColorOrdering(ordering_text, c + 1,
         IF ReSearch(Cat(<<WB, Lit(colors[c]), WB>>), ordering_text)
         THEN AddNew(found_colors, proper_capitalize(colors[c]))
         ELSE found_colors)

\* the items of format_led_colors_with_codes and format_with_codes: the
\* coded values, then the values no code has, with a generated code when
\* generate is set
RECURSIVE UncodedItems(_, _, _, _)
UncodedItems(values_list, k, used, generate) ==
  IF k > Len(values_list) THEN <<>>
  ELSE Let(values_list[k], LAMBDA value :
          IF Lower(value) \in used THEN UncodedItems(values_list, k + 1, used, generate)
          ELSE <<IF generate THEN CodeValue(get_color_code(value), value) ELSE value>>
               \o UncodedItems(values_list, k + 1, used \cup {Lower(value)}, generate))

FormattedItems(codes_dict, values_list, generate) ==
  CodedItems(codes_dict)
  \o UncodedItems(values_list, 1, {Lower(codes_dict[i][2]) : i \in 1..Len(codes_dict)}, generate)

format_led_colors_with_codes(colors_dict, colors_list) ==
  IF colors_dict = <<>> /\ colors_list = <<>> THEN NA
  ELSE Braced(FormattedItems(colors_dict, colors_list, TRUE))

extract_led_color(text, tables) ==
  Let(ColorTable(ColorTableHits(tables), 1, [found_codes |-> <<>>, found_colors |-> <<>>]), LAMBDA st :
  Let(ColorText(Lower(text), FALSE, 1, st.found_colors), LAMBDA fromText :
  Let(Lower(search_ordering_info(text, tables)), LAMBDA ordering_text :
  Let(IF ordering_text # <<>> THEN ColorOrdering(ordering_text, 1, fromText)
                      ELSE fromText, LAMBDA found_colors :
     format_led_colors_with_codes(st.found_codes, found_colors)))))

extract_led_color_det(text, tables) ==
  Let(ColorTable(ColorTableHits(tables), 1, [found_codes |-> <<>>, found_colors |-> <<>>]), LAMBDA st :
  Let(ColorText(Lower(text), TRUE, 1, st.found_colors), LAMBDA found_colors :
     IF st.found_codes = <<>> /\ found_colors = <<>> THEN PyNone
     ELSE Braced(FormattedItems(st.found_codes, found_colors, TRUE))))

\* format_with_codes with its defaults always_code=False and
\* code_generator=None, which is how every caller uses it; the same lines
\* are written out at the end of each of the four extractors below in
\* extract_python.py
format_with_codes(codes_dict, values_list) ==
  IF codes_dict = <<>> /\ values_list = <<>> THEN NA
  ELSE Let(FormattedItems(codes_dict, values_list, FALSE), LAMBDA formatted_items :
          IF formatted_items # <<>> THEN Braced(formatted_items) ELSE NA)

\* found_types after "for t in types: if t in text: if normalized not in
\* found_types: append"; found(t) is the test on the text
RECURSIVE TextValues(_, _, _, _)
TextValues(value_list, k, found(_), found_types) ==
  IF k > Len(value_list) THEN found_types
  ELSE TextValues(value_list, k + 1, found,
         IF found(value_list[k])
         THEN AddNew(found_types,
                     IF value_list[k] = <<"Q","u","i","c","k"," ","C","o","n","n","e","c","t">> THEN <<"Q","u","i","c","k","-","c","o","n","n","e","c","t">>
                     ELSE value_list[k])
         ELSE found_types)

illumination_types ==
  <<<<"L","E","D">>, <<"N","e","o","n">>, <<"I","n","c","a","n","d","e","s","c","e","n","t">>, <<"H","a","l","o","g","e","n">>, <<"L","a","m","p">>, <<"F","l","u","o","r","e","s","c","e","n","t">>, <<"F","i","l","a","m","e","n","t">>>>

extract_illumination_type(text, tables) ==
  Let(exhaustive_table_search(tables, illumination_types, TRUE), LAMBDA st :
  Let(Upper(text), LAMBDA text_upper :
     format_with_codes(st.found_codes,
       TextValues(illumination_types, 1, LAMBDA t : Contains(Upper(t), text_upper),
                  st.found_values))))

styles ==
  <<<<"D","o","m","e">>, <<"F","l","a","t">>, <<"R","o","u","n","d">>, <<"S","q","u","a","r","e">>, <<"R","e","c","t","a","n","g","u","l","a","r">>, <<"F","l","u","s","h">>,
    <<"P","r","o","j","e","c","t","e","d">>, <<"E","x","t","e","n","d","e","d">>, <<"R","a","i","s","e","d">>, <<"R","e","c","e","s","s","e","d">>, <<"C","o","n","v","e","x">>, <<"M","u","s","h","r","o","o","m">>>>

extract_bezel_style(text, tables) ==
  Let(exhaustive_table_search(tables, styles, TRUE), LAMBDA st :
  Let(Lower(text), LAMBDA text_lower :
     format_with_codes(st.found_codes,
       TextValues(styles, 1, LAMBDA t : Contains(Lower(t), text_lower), st.found_values))))

terminal_types ==
  <<<<"S","o","l","d","e","r">>, <<"S","c","r","e","w">>, <<"Q","u","i","c","k","-","c","o","n","n","e","c","t">>, <<"Q","u","i","c","k"," ","C","o","n","n","e","c","t">>,
    <<"S","p","r","i","n","g">>, <<"C","r","i","m","p">>, <<"W","i","r","e">>, <<"T","a","b">>, <<"P","C","B">>, <<"T","h","r","o","u","g","h","-","h","o","l","e">>,
    <<"S","M","D">>, <<"P","l","u","g","-","i","n">>, <<"F","a","s","t","o","n">>, <<"B","l","a","d","e">>, <<"P","i","n">>>>

extract_terminals(text, tables) ==
  Let(exhaustive_table_search(tables, terminal_types, TRUE), LAMBDA st :
  Let(Lower(text), LAMBDA text_lower :
     format_with_codes(st.found_codes,
       TextValues(terminal_types, 1, LAMBDA t : Contains(Lower(t), text_lower),
                  st.found_values))))

finishes ==
  <<<<"C","h","r","o","m","e">>, <<"P","l","a","s","t","i","c">>, <<"M","e","t","a","l">>, <<"A","l","u","m","i","n","u","m">>, <<"S","t","a","i","n","l","e","s","s">>,
    <<"N","i","c","k","e","l">>, <<"B","l","a","c","k">>, <<"S","i","l","v","e","r">>, <<"B","r","a","s","s">>, <<"Z","i","n","c">>, <<"P","a","i","n","t","e","d">>,
    <<"A","n","o","d","i","z","e","d">>, <<"P","o","l","i","s","h","e","d">>, <<"S","a","t","i","n">>, <<"M","a","t","t","e">>>>

extract_bezel_finish(text, tables) ==
  Let(exhaustive_table_search(tables, finishes, TRUE), LAMBDA st :
  Let(Lower(text), LAMBDA text_lower :
     format_with_codes(st.found_codes,
       TextValues(finishes, 1, LAMBDA t : Contains(Lower(t), text_lower), st.found_values))))

\* ------------------------------------------------------------------------
\* Model codes (extract_data_deterministic.py)
\* ------------------------------------------------------------------------

\* the series name as it reads inside the f-string pattern: the series
\* names the modelled filenames give hold letters, digits, '-', '/' and
\* '_', which stand for themselves, and '.', which matches any character
SeriesRe(series_name) ==
  Cat([i \in 1..Len(series_name) |->
         IF series_name[i] = "." THEN ReDot ELSE ChCI({series_name[i]})])

\* \b{series_name}[-][A-Z0-9]{2,}(?:[-][A-Z0-9]+)*\b under re.IGNORECASE
strict_pattern(series_name) ==
  Cat(<<WB, SeriesRe(series_name), Ch({"-"}), Rep(ChCI(AZ \cup Digits), 2, -1),
        Star(Cat(<<Ch({"-"}), Plus(ChCI(AZ \cup Digits))>>)), WB>>)

garbage_words ==
  <<<<"C","I","R","C","U","I","T">>, <<"E","X","A","M","P","L","E">>, <<"C","O","N","D","I","T","I","O","N","A","L">>, <<"S","H","O","R","T">>, <<"C","U","R","R","E","N","T">>,
    <<"N","O","T","E">>, <<"F","I","G","U","R","E">>, <<"T","A","B","L","E">>, <<"P","A","G","E">>, <<"S","P","E","C","I","F","I","C","A","T","I","O","N">>,
    <<"D","I","M","E","N","S","I","O","N">>, <<"M","O","U","N","T","I","N","G">>, <<"T","E","R","M","I","N","A","L">>, <<"V","O","L","T","A","G","E">>, <<"S","E","A","L","I","N","G">>>>

StrictMinLen == 8

StrictMaxLen == 25

\* a faulty is_valid_model_code: the garbage words are not tested
IsValidWithoutDenylist(code_in, series_name) ==
  IF ~Truthy(code_in) THEN FALSE
  ELSE Let(Upper(Strip(code_in)), LAMBDA code :
       Let(SubSeq(code, Len(series_name) + 2, Len(code)), LAMBDA suffix :
          /\ ~(Len(code) < StrictMinLen \/ Len(code) > StrictMaxLen)
          /\ StartsWith(code, Upper(series_name))
          /\ ~(Len(code) <= Len(series_name) \/ code[Len(series_name) + 1] # "-")
          /\ ~Contains(<<" ">>, code)
          /\ \E i \in 1..Len(suffix) : IsDigitChar(suffix[i])
          /\ \A i \in 1..Len(code) : IsAlnumChar(code[i]) \/ code[i] = "-"))

is_valid_model_code(code_in, series_name) ==
  IF ~Truthy(code_in) THEN FALSE
  ELSE Let(Upper(Strip(code_in)), LAMBDA code :
       Let(SubSeq(code, Len(series_name) + 2, Len(code)), LAMBDA suffix :
          /\ ~(Len(code) < StrictMinLen \/ Len(code) > StrictMaxLen)
          /\ StartsWith(code, Upper(series_name))
          /\ ~(Len(code) <= Len(series_name) \/ code[Len(series_name) + 1] # "-")
          /\ ~Contains(<<" ">>, code)
          /\ \A i \in 1..Len(garbage_words) : ~Contains(garbage_words[i], code)
          /\ \E i \in 1..Len(suffix) : IsDigitChar(suffix[i])
          /\ \A i \in 1..Len(code) : IsAlnumChar(code[i]) \/ code[i] = "-"))

\* add_code over the candidates in order
RECURSIVE AddCodes(_, _, _, _)
AddCodes(cands, k, series_name, model_codes) ==
  IF k > Len(cands) THEN model_codes
  ELSE Let(Upper(Strip(cands[k])), LAMBDA code :
          AddCodes(cands, k + 1, series_name,
            IF is_valid_model_code(code, series_name) THEN AddNew(model_codes, code)
            ELSE model_codes))

\* the order of the characters of a code by code point
CharOrder ==
  <<"-">> \o DigitSeq \o UpperLetters \o <<"Acirc", "Atilde", "Oslash", "OElig">>

CharRank(c) == CHOOSE n \in 1..Len(CharOrder) : CharOrder[n] = c

\* a < b for str
RECURSIVE StrLess(_, _)
StrLess(a, b) ==
  IF b = <<>> THEN FALSE
  ELSE IF a = <<>> THEN TRUE
  ELSE IF a[1] # b[1] THEN CharRank(a[1]) < CharRank(b[1])
  ELSE StrLess(Tail(a), Tail(b))

\* a faulty SortCodes: the codes stay in the order they were found in
CodesAsFound(codes) == codes

\* list.sort() of distinct strings
SortCodes(codes) ==
  [k \in 1..Len(codes) |->
     CHOOSE c \in Range(codes) :
       Cardinality({d \in Range(codes) : StrLess(d, c)}) = k - 1]

\* what Pass 2 hands to add_code for one cell: the pattern's matches, then
\* the cell itself when it is a valid code
CellCandidates(cell, series_name) ==
  Let(Strip(cell), LAMBDA cell_str :
     ReFindAll(strict_pattern(series_name), cell_str)
     \o (IF is_valid_model_code(cell_str, series_name) THEN <<cell_str>> ELSE <<>>))

extract_model_codes(text, tables, series_name) ==
  Let(RowsOf(tables, 1), LAMBDA rows :
  LET OfRow(row) == FlatCat([i \in 1..Len(row) |->
                      IF Truthy(row[i]) THEN CellCandidates(row[i], series_name) ELSE <<>>])
  IN
  Let(ReFindAll(strict_pattern(series_name), text)
               \o FlatCat([r \in 1..Len(rows) |-> OfRow(rows[r].row)]), LAMBDA cands :
     SortCodes(AddCodes(cands, 1, series_name, <<>>))))

\* ------------------------------------------------------------------------
\* Product types and the top-level entry points (extract_python.py)
\* ------------------------------------------------------------------------

\* PRODUCT_TYPES[product_type]['columns']
PRODUCT_TYPES ==
  [led_indicator |->
     <<"SERIES", "MOUNTING HOLE", "BEZEL STYLE", "TERMINALS", "BEZEL FINISH",
       "TYPE OF ILLUMINATION", "LED COLOR", "VOLTAGE", "SEALING">>,
   paddle_joystick |->
     <<"SERIES", "CONFIGURATION", "GAIN", "LEVER OPERATION", "HANDLE",
       "DETAIL COLOR", "SWITCHING POINTS", "MODIFIER">>,
   thumbstick_joystick |->
     <<"SERIES", "LOWER FACE BUTTONS", "UPPER FACE BUTTONS", "OPERATOR PRESENCE PADDLE",
       "LIMITER PLATE", "SPRING TENSION", "OUTPUT OPTIONS", "ADDITIONAL OPTIONS">>,
   fingertip_joystick |->
     <<"SERIES", "CONFIGURATION", "AXIS", "OUTPUT", "VOLTAGE", "SEALING",
       "MOUNTING", "OPTIONS">>,
   terminal_block |->
     <<"SERIES", "TERMINAL TYPE", "WIRE RANGE", "RATING", "MOUNTING",
       "CERTIFICATIONS", "MATERIAL", "MARKING">>]

led_keywords ==
  <<<<"i","n","d","i","c","a","t","o","r">>, <<"p","i","l","o","t"," ","l","i","g","h","t">>, <<"p","u","s","h","b","u","t","t","o","n">>, <<"i","l","l","u","m","i","n","a","t","e","d">>, <<"L","E","D"," ","l","e","n","s">>,
    <<"p","a","n","e","l"," ","m","o","u","n","t"," ","i","n","d","i","c","a","t","o","r">>>>

\* the product type, or IndexError: filename_lower.split()[0] of a filename
\* with nothing but whitespace
detect_product_type(text, filename) ==
  Let(Lower(text), LAMBDA text_lower :
  Let(Lower(filename), LAMBDA filename_lower :
  LET InName(s) == Contains(s, filename_lower)
  IN
  LET InText(s) == Contains(s, text_lower)
  IN
     IF InName(<<"b","h","n">>) \/ InText(<<"b","h","n"," ","s","e","r","i","e","s">>) THEN <<"p","a","d","d","l","e","_","j","o","y","s","t","i","c","k">>
     ELSE IF Contains(<<"c","j">>, Split(filename_lower, "_")[1]) \/ InText(<<"c","j"," ","s","e","r","i","e","s">>)
     THEN <<"t","h","u","m","b","s","t","i","c","k","_","j","o","y","s","t","i","c","k">>
     ELSE IF SplitWs(filename_lower) = <<>> THEN IndexError
     ELSE IF Contains(<<"x","s">>, Lower(SplitWs(filename_lower)[1])) \/ InText(<<"x","s"," ","s","e","r","i","e","s">>)
     THEN <<"f","i","n","g","e","r","t","i","p","_","j","o","y","s","t","i","c","k">>
     ELSE IF InName(<<"f","t","1","j">>) \/ InName(<<"f","t","2","j">>)
             \/ InText(<<"c","o","n","t","r","o","l","l","e","r"," ","w","i","t","h"," ","o","p","e","r","a","t","o","r"," ","i","n","t","e","r","f","a","c","e">>)
     THEN <<"l","e","d","_","i","n","d","i","c","a","t","o","r">>
     ELSE IF InName(<<"h","s","1","t">>) \/ InText(<<"i","n","t","e","r","l","o","c","k"," ","s","w","i","t","c","h">>) THEN <<"l","e","d","_","i","n","d","i","c","a","t","o","r">>
     ELSE IF InName(<<"b","n","-","w">>) \/ InName(<<"b","n","h","-","w">>) THEN <<"t","e","r","m","i","n","a","l","_","b","l","o","c","k">>
     ELSE IF InText(<<"p","a","d","d","l","e"," ","j","o","y","s","t","i","c","k">>) \/ InText(<<"p","a","d","d","l","e"," ","c","o","n","t","r","o","l","l","e","r">>)
     THEN <<"p","a","d","d","l","e","_","j","o","y","s","t","i","c","k">>
     ELSE IF InText(<<"h","a","n","d"," ","g","r","i","p">>) \/ InText(<<"f","i","n","g","e","r","t","i","p"," ","j","o","y","s","t","i","c","k">>)
     THEN <<"t","h","u","m","b","s","t","i","c","k","_","j","o","y","s","t","i","c","k">>
     ELSE IF InText(<<"f","i","n","g","e","r","t","i","p"," ","c","o","n","t","r","o","l","l","e","r">>) \/ InText(<<"p","r","o","p","o","r","t","i","o","n","a","l"," ","f","i","n","g","e","r","t","i","p">>)
     THEN <<"f","i","n","g","e","r","t","i","p","_","j","o","y","s","t","i","c","k">>
     ELSE IF \E i \in 1..Len(led_keywords) : InText(Lower(led_keywords[i]))
     THEN <<"l","e","d","_","i","n","d","i","c","a","t","o","r">>
     ELSE <<"l","e","d","_","i","n","d","i","c","a","t","o","r">>))

\* the labels of the patterns found in the text (re.search under
\* re.IGNORECASE), in the order of the list
Labels(patterns, text) ==
  Let(SelectSeq(patterns, LAMBDA x : ReSearch(x.re, text)), LAMBDA hits :
     [k \in 1..Len(hits) |-> hits[k].label])

\* '{\n' + '|\n'.join(items) + '\n}'
MultiLine(items) == <<"{", "\n">> \o Join(<<"|", "\n">>, items) \o <<"\n", "}">>

\* result = {col: 'N/A' for col in columns}, result['SERIES'] and
\* result['_PRODUCT_TYPE']
BaseResult(columns, filename, type_name) ==
  [col \in Range(columns) \cup {"_PRODUCT_TYPE"} |->
     IF col = "SERIES" THEN extract_series_from_filename(filename)
     ELSE IF col = "_PRODUCT_TYPE" THEN type_name
     ELSE NA]

\* result[key] = value when the condition holds
SetIf(cond, key, value) == IF cond THEN key :> value ELSE <<>>

extract_paddle_joystick_data(text, tables, filename) ==
  Let(Labels(
       <<[re |-> Cat(<<Lit(<<"1">>), Star(Ch({":"} \cup Whitespace)), LitCI(<<"S","t","a","n","d","a","r","d">>), ReSs, LitCI(<<"D","u","a","l">>), ReSs, LitCI(<<"O","u","t","p","u","t">>), Opt(ChCI({"s"}))>>),
         label |-> <<"1",":"," ","S","t","a","n","d","a","r","d"," ","D","u","a","l"," ","O","u","t","p","u","t","s">>],
       [re |-> Cat(<<Lit(<<"2">>), Star(Ch({":"} \cup Whitespace)), LitCI(<<"I","n","v","e","r","s","e">>), ReSs, LitCI(<<"D","u","a","l">>), ReSs, LitCI(<<"O","u","t","p","u","t">>), Opt(ChCI({"s"}))>>),
         label |-> <<"2",":"," ","I","n","v","e","r","s","e"," ","D","u","a","l"," ","O","u","t","p","u","t","s">>],
       [re |-> Cat(<<Lit(<<"3">>), Star(Ch({":"} \cup Whitespace)), LitCI(<<"P","W","M">>)>>),
         label |-> <<"3",":"," ","P","W","M">>]>>, text), LAMBDA configs :
  Let(ReMatchesFrom(Cat(<<Grp(1, Plus(ReD)), Star(Ch({":"} \cup Whitespace)), Opt(Ch({"Acirc", "plusminus"})), Grp(2, Plus(ReD)), Lit(<<"%">>), ReSs, Opt(Ch({"x", "X", "Atilde", "emdash"})), ReSs, Lit(<<"V">>)>>), text, 1), LAMBDA gain_patterns :
  Let([k \in 1..Len(gain_patterns) |->
                  GroupText(text, gain_patterns[k][2], 1) \o <<":"," ","Acirc","plusminus">>
                  \o GroupText(text, gain_patterns[k][2], 2) \o <<"%","x","V">>], LAMBDA gains :
  Let(Labels(
       <<[re |-> Cat(<<LitCI(<<"D">>), Opt(Ch({"0"})), Lit(<<"1">>), Star(Ch({":"} \cup Whitespace)), LitCI(<<"C","e","n","t","r","e">>), ReSs, LitCI(<<"D","e","t","e","n","t">>)>>),
         label |-> <<"D","0","1",":"," ","C","e","n","t","r","e"," ","D","e","t","e","n","t">>],
       [re |-> Cat(<<LitCI(<<"D">>), Opt(Ch({"0"})), Lit(<<"2">>), Star(Ch({":"} \cup Whitespace)), LitCI(<<"1","5","Acirc">>), Opt(Ch({"degree"})), ReSs, LitCI(<<"D","e","t","e","n","t">>), Opt(ChCI({"s"}))>>),
         label |-> <<"D","0","2",":"," ","1","5","Acirc","degree"," ","D","e","t","e","n","t","s">>],
       [re |-> Cat(<<LitCI(<<"D">>), Opt(Ch({"0"})), Lit(<<"3">>), Star(Ch({":"} \cup Whitespace)), LitCI(<<"1","5","Acirc">>), Opt(Ch({"degree"})), ReSs, Lit(<<"&">>), ReSs, LitCI(<<"3","0","Acirc">>), Opt(Ch({"degree"})), ReSs, LitCI(<<"D","e","t","e","n","t">>), Opt(ChCI({"s"}))>>),
         label |-> <<"D","0","3",":"," ","1","5","Acirc","degree"," ","&"," ","3","0","Acirc","degree"," ","D","e","t","e","n","t","s">>],
       [re |-> Cat(<<LitCI(<<"D">>), Opt(Ch({"0"})), Lit(<<"4">>), Star(Ch({":"} \cup Whitespace)), LitCI(<<"3","0","Acirc">>), Opt(Ch({"degree"})), ReSs, LitCI(<<"D","e","t","e","n","t">>), Opt(ChCI({"s"}))>>),
         label |-> <<"D","0","4",":"," ","3","0","Acirc","degree"," ","D","e","t","e","n","t","s">>],
       [re |-> Cat(<<LitCI(<<"S","D","1">>), Star(Ch({":"} \cup Whitespace)), LitCI(<<"S","p","r","u","n","g">>), ReSs, LitCI(<<"t","o">>), ReSs, LitCI(<<"C","e","n","t","r","e">>)>>),
         label |-> <<"S","D","1",":"," ","S","p","r","u","n","g"," ","t","o"," ","C","e","n","t","r","e"," ","w","i","t","h"," ","D","1">>],
       [re |-> Cat(<<LitCI(<<"S","D","2">>), Star(Ch({":"} \cup Whitespace)), LitCI(<<"S","p","r","u","n","g">>), ReSs, LitCI(<<"t","o">>), ReSs, LitCI(<<"C","e","n","t","r","e">>)>>),
         label |-> <<"S","D","2",":"," ","S","p","r","u","n","g"," ","t","o"," ","C","e","n","t","r","e"," ","w","i","t","h"," ","D","2">>],
       [re |-> Cat(<<LitCI(<<"S","D","3">>), Star(Ch({":"} \cup Whitespace)), LitCI(<<"S","p","r","u","n","g">>), ReSs, LitCI(<<"t","o">>), ReSs, LitCI(<<"C","e","n","t","r","e">>)>>),
         label |-> <<"S","D","3",":"," ","S","p","r","u","n","g"," ","t","o"," ","C","e","n","t","r","e"," ","w","i","t","h"," ","D","3">>],
       [re |-> Cat(<<LitCI(<<"S","D","4">>), Star(Ch({":"} \cup Whitespace)), LitCI(<<"S","p","r","u","n","g">>), ReSs, LitCI(<<"t","o">>), ReSs, LitCI(<<"C","e","n","t","r","e">>)>>),
         label |-> <<"S","D","4",":"," ","S","p","r","u","n","g"," ","t","o"," ","C","e","n","t","r","e"," ","w","i","t","h"," ","D","4">>]>>, text), LAMBDA lever_ops :
  Let(Labels(
       <<[re |-> Cat(<<LitCI(<<"B","K">>), Star(Ch({":"} \cup Whitespace)), LitCI(<<"B","l","a","c","k">>)>>),
         label |-> <<"B","K",":"," ","B","l","a","c","k">>],
       [re |-> Cat(<<LitCI(<<"R","E">>), Star(Ch({":"} \cup Whitespace)), LitCI(<<"R","e","d">>)>>),
         label |-> <<"R","E",":"," ","R","e","d">>],
       [re |-> Cat(<<LitCI(<<"B","L">>), Star(Ch({":"} \cup Whitespace)), LitCI(<<"B","l","u","e">>)>>),
         label |-> <<"B","L",":"," ","B","l","u","e">>],
       [re |-> Cat(<<LitCI(<<"Y","E">>), Star(Ch({":"} \cup Whitespace)), LitCI(<<"Y","e","l","l","o","w">>)>>),
         label |-> <<"Y","E",":"," ","Y","e","l","l","o","w">>],
       [re |-> Cat(<<LitCI(<<"G","R">>), Star(Ch({":"} \cup Whitespace)), LitCI(<<"G","r","e","e","n">>)>>),
         label |-> <<"G","R",":"," ","G","r","e","e","n">>]>>, text), LAMBDA handle_colors :
  Let(Labels(
       <<[re |-> Cat(<<Lit(<<"0","0">>), Star(Ch({":"} \cup Whitespace)), LitCI(<<"N","o">>), ReSs, LitCI(<<"S","w","i","t","c","h">>)>>),
         label |-> <<"0","0",":"," ","N","o"," ","S","w","i","t","c","h","e","s">>],
       [re |-> Cat(<<Lit(<<"0","5">>), Star(Ch({":"} \cup Whitespace)), Opt(ChCI({"Acirc", "plusminus"})), Lit(<<"5">>), ReSs, LitCI(<<"D","e","g","r","e","e">>), Opt(ChCI({"s"}))>>),
         label |-> <<"0","5",":"," ","Acirc","plusminus","5"," ","D","e","g","r","e","e","s">>],
       [re |-> Cat(<<Lit(<<"1","5">>), Star(Ch({":"} \cup Whitespace)), Opt(ChCI({"Acirc", "plusminus"})), Lit(<<"1","5">>), ReSs, LitCI(<<"D","e","g","r","e","e">>), Opt(ChCI({"s"}))>>),
         label |-> <<"1","5",":"," ","Acirc","plusminus","1","5"," ","D","e","g","r","e","e","s">>],
       [re |-> Cat(<<Lit(<<"3","0">>), Star(Ch({":"} \cup Whitespace)), Opt(ChCI({"Acirc", "plusminus"})), Lit(<<"3","0">>), ReSs, LitCI(<<"D","e","g","r","e","e">>), Opt(ChCI({"s"}))>>),
         label |-> <<"3","0",":"," ","Acirc","plusminus","3","0"," ","D","e","g","r","e","e","s">>]>>, text), LAMBDA switch_pts :
     SetIf(configs # <<>>, "CONFIGURATION", MultiLine(configs))
     @@ SetIf(gains # <<>>, "GAIN", MultiLine(gains))
     @@ SetIf(lever_ops # <<>>, "LEVER OPERATION", MultiLine(lever_ops))
     @@ SetIf(handle_colors # <<>>, "DETAIL COLOR", MultiLine(handle_colors))
     @@ SetIf(ReSearch(Alt(<<Cat(<<LitCI(<<"h","a","n","d","l","e">>), Star(ReDot), LitCI(<<"b","l","a","c","k">>)>>), Cat(<<LitCI(<<"b","l","a","c","k">>), Star(ReDot), LitCI(<<"h","a","n","d","l","e">>)>>)>>), text), "HANDLE", <<"{","B","K",":"," ","B","l","a","c","k","}">>)
     @@ SetIf(switch_pts # <<>>, "SWITCHING POINTS", MultiLine(switch_pts))
     @@ ("MODIFIER" :> <<"{","0","0",":"," ","N","o","n","e","}">>)
     @@ BaseResult(PRODUCT_TYPES.paddle_joystick, filename, <<"P","a","d","d","l","e"," ","J","o","y","s","t","i","c","k">>)))))))

extract_thumbstick_data(text, tables, filename) ==
  Let(Labels(
       <<[re |-> Cat(<<LitCI(<<"N">>), Star(Ch({":"} \cup Whitespace)), LitCI(<<"N","o","n","e">>)>>),
         label |-> <<"N",":"," ","N","o","n","e">>],
       [re |-> Cat(<<LitCI(<<"A">>), Star(Ch({":"} \cup Whitespace)), LitCI(<<"O","n","e">>), ReSs, LitCI(<<"s","w","i","t","c","h">>), ReSs, LitCI(<<"i","n">>), ReSs, LitCI(<<"p","o","s","i","t","i","o","n">>), ReSs, LitCI(<<"A">>)>>),
         label |-> <<"A",":"," ","O","n","e"," ","s","w","i","t","c","h"," ","i","n"," ","p","o","s","i","t","i","o","n"," ","A">>],
       [re |-> Cat(<<LitCI(<<"B">>), Star(Ch({":"} \cup Whitespace)), LitCI(<<"O","n","e">>), ReSs, LitCI(<<"s","w","i","t","c","h">>), ReSs, LitCI(<<"i","n">>), ReSs, LitCI(<<"p","o","s","i","t","i","o","n">>), ReSs, LitCI(<<"B">>)>>),
         label |-> <<"B",":"," ","O","n","e"," ","s","w","i","t","c","h"," ","i","n"," ","p","o","s","i","t","i","o","n"," ","B">>],
       [re |-> Cat(<<LitCI(<<"C">>), Star(Ch({":"} \cup Whitespace)), LitCI(<<"O","n","e">>), ReSs, LitCI(<<"s","w","i","t","c","h">>), ReSs, LitCI(<<"i","n">>), ReSs, LitCI(<<"c","e","n","t","e","r">>)>>),
         label |-> <<"C",":"," ","O","n","e"," ","s","w","i","t","c","h"," ","i","n"," ","c","e","n","t","e","r">>],
       [re |-> Cat(<<LitCI(<<"W">>), Star(Ch({":"} \cup Whitespace)), LitCI(<<"T","w","o">>), ReSs, LitCI(<<"s","w","i","t","c","h","e","s">>)>>),
         label |-> <<"W",":"," ","T","w","o"," ","s","w","i","t","c","h","e","s">>],
       [re |-> Cat(<<LitCI(<<"X">>), Star(Ch({":"} \cup Whitespace)), LitCI(<<"C","u","s","t","o","m">>)>>),
         label |-> <<"X",":"," ","C","u","s","t","o","m","Acirc","sup1">>]>>, text), LAMBDA lower_buttons :
  Let(Labels(
       <<[re |-> Cat(<<Lit(<<"0">>), Star(Ch({":"} \cup Whitespace)), LitCI(<<"N","o","n","e">>)>>),
         label |-> <<"0",":"," ","N","o","n","e">>],
       [re |-> Cat(<<Lit(<<"1">>), Star(Ch({":"} \cup Whitespace)), LitCI(<<"O","n","e">>), WB>>),
         label |-> <<"1",":"," ","O","n","e">>],
       [re |-> Cat(<<Lit(<<"2">>), Star(Ch({":"} \cup Whitespace)), LitCI(<<"T","w","o">>), WB>>),
         label |-> <<"2",":"," ","T","w","o">>],
       [re |-> Cat(<<Lit(<<"3">>), Star(Ch({":"} \cup Whitespace)), LitCI(<<"T","h","r","e","e">>)>>),
         label |-> <<"3",":"," ","T","h","r","e","e">>],
       [re |-> Cat(<<Lit(<<"4">>), Star(Ch({":"} \cup Whitespace)), LitCI(<<"F","o","u","r">>)>>),
         label |-> <<"4",":"," ","F","o","u","r">>],
       [re |-> Cat(<<Lit(<<"5">>), Star(Ch({":"} \cup Whitespace)), LitCI(<<"F","i","v","e">>)>>),
         label |-> <<"5",":"," ","F","i","v","e">>],
       [re |-> Cat(<<Lit(<<"6">>), Star(Ch({":"} \cup Whitespace)), LitCI(<<"S","i","x">>)>>),
         label |-> <<"6",":"," ","S","i","x">>]>>, text), LAMBDA upper_buttons :
  Let(Labels(
       <<[re |-> Cat(<<LitCI(<<"S">>), Star(Ch({":"} \cup Whitespace)), LitCI(<<"S","q","u","a","r","e">>)>>),
         label |-> <<"S",":"," ","S","q","u","a","r","e">>],
       [re |-> Cat(<<LitCI(<<"R">>), Star(Ch({":"} \cup Whitespace)), LitCI(<<"R","o","u","n","d">>)>>),
         label |-> <<"R",":"," ","R","o","u","n","d">>],
       [re |-> Cat(<<LitCI(<<"X">>), Star(Ch({":"} \cup Whitespace)), LitCI(<<"S","l","o","t","t","e","d">>), ReSs, LitCI(<<"h","o","r","i","z","o","n","t","a","l">>)>>),
         label |-> <<"X",":"," ","S","l","o","t","t","e","d"," ","h","o","r","i","z","o","n","t","a","l">>],
       [re |-> Cat(<<LitCI(<<"Y">>), Star(Ch({":"} \cup Whitespace)), LitCI(<<"S","l","o","t","t","e","d">>), ReSs, LitCI(<<"v","e","r","t","i","c","a","l">>)>>),
         label |-> <<"Y",":"," ","S","l","o","t","t","e","d"," ","v","e","r","t","i","c","a","l">>],
       [re |-> Cat(<<LitCI(<<"P">>), Star(Ch({":"} \cup Whitespace)), LitCI(<<"P","l","u","s">>)>>),
         label |-> <<"P",":"," ","P","l","u","s">>],
       [re |-> Cat(<<LitCI(<<"D">>), Star(Ch({":"} \cup Whitespace)), LitCI(<<"D","i","a","m","o","n","d">>)>>),
         label |-> <<"D",":"," ","D","i","a","m","o","n","d">>],
       [re |-> Cat(<<LitCI(<<"G">>), Star(Ch({":"} \cup Whitespace)), LitCI(<<"G","u","i","d","e","d">>), ReSs, LitCI(<<"f","e","e","l">>), ReSs, LitCI(<<"s","q","u","a","r","e">>)>>),
         label |-> <<"G",":"," ","G","u","i","d","e","d"," ","f","e","e","l"," ","s","q","u","a","r","e">>],
       [re |-> Cat(<<LitCI(<<"H">>), Star(Ch({":"} \cup Whitespace)), LitCI(<<"G","u","i","d","e","d">>), ReSs, LitCI(<<"f","e","e","l">>), ReSs, LitCI(<<"r","o","u","n","d">>)>>),
         label |-> <<"H",":"," ","G","u","i","d","e","d"," ","f","e","e","l"," ","r","o","u","n","d">>]>>, text), LAMBDA plates :
  Let(Labels(
       <<[re |-> Cat(<<Lit(<<"0","0">>), Star(Ch({":"} \cup Whitespace)), LitCI(<<"0","V">>), ReSs, LitCI(<<"t","o">>), ReSs, LitCI(<<"5","V">>), WB>>),
         label |-> <<"0","0",":"," ","0","V"," ","t","o"," ","5","V">>],
       [re |-> Cat(<<Lit(<<"0","1">>), Star(Ch({":"} \cup Whitespace)), LitCI(<<"0",".","5","V">>), ReSs, LitCI(<<"t","o">>), ReSs, LitCI(<<"4",".","5","V">>)>>),
         label |-> <<"0","1",":"," ","0",".","5","V"," ","t","o"," ","4",".","5","V">>],
       [re |-> Cat(<<Lit(<<"0","2">>), Star(Ch({":"} \cup Whitespace)), LitCI(<<"0",".","2","5","V">>), ReSs, LitCI(<<"t","o">>), ReSs, LitCI(<<"4",".","7","5","V">>)>>),
         label |-> <<"0","2",":"," ","0",".","2","5","V"," ","t","o"," ","4",".","7","5","V">>],
       [re |-> Cat(<<Lit(<<"0","3">>), Star(Ch({":"} \cup Whitespace)), LitCI(<<"1","V">>), ReSs, LitCI(<<"t","o">>), ReSs, LitCI(<<"4","V">>)>>),
         label |-> <<"0","3",":"," ","1","V"," ","t","o"," ","4","V">>],
       [re |-> Cat(<<Lit(<<"1","3">>), Star(Ch({":"} \cup Whitespace)), LitCI(<<"U","S","B">>)>>),
         label |-> <<"1","3",":"," ","U","S","B">>],
       [re |-> Cat(<<Lit(<<"1","4">>), Star(Ch({":"} \cup Whitespace)), LitCI(<<"C","u","r","s","o","r">>)>>),
         label |-> <<"1","4",":"," ","C","u","r","s","o","r"," ","e","m","u","l","a","t","i","o","n">>],
       [re |-> Cat(<<Lit(<<"1","5">>), Star(Ch({":"} \cup Whitespace)), LitCI(<<"C","A","N">>), ReSs, LitCI(<<"b","u","s">>), ReSs, LitCI(<<"J","1","9","3","9">>)>>),
         label |-> <<"1","5",":"," ","C","A","N"," ","b","u","s"," ","J","1","9","3","9">>],
       [re |-> Cat(<<Lit(<<"1","6">>), Star(Ch({":"} \cup Whitespace)), LitCI(<<"C","A","N","o","p","e","n">>)>>),
         label |-> <<"1","6",":"," ","C","A","N","o","p","e","n">>]>>, text), LAMBDA outputs :
  Let(Labels(
       <<[re |-> Cat(<<LitCI(<<"N">>), Star(Ch({":"} \cup Whitespace)), LitCI(<<"N","o","n","e">>)>>),
         label |-> <<"N",":"," ","N","o","n","e">>],
       [re |-> Cat(<<LitCI(<<"V">>), Star(Ch({":"} \cup Whitespace)), LitCI(<<"V","o","l","t","a","g","e">>), ReSs, LitCI(<<"r","e","g","u","l","a","t","o","r">>)>>),
         label |-> <<"V",":"," ","V","o","l","t","a","g","e"," ","r","e","g","u","l","a","t","o","r","Acirc","sup2">>],
       [re |-> Cat(<<LitCI(<<"E">>), Star(Ch({":"} \cup Whitespace)), LitCI(<<"E","n","v","i","r","o","n","m","e","n","t","a","l">>), ReSs, LitCI(<<"s","e","a","l","i","n","g">>)>>),
         label |-> <<"E",":"," ","E","n","v","i","r","o","n","m","e","n","t","a","l"," ","s","e","a","l","i","n","g","*">>]>>, text), LAMBDA addl_opts :
     SetIf(lower_buttons # <<>>, "LOWER FACE BUTTONS", MultiLine(lower_buttons))
     @@ SetIf(upper_buttons # <<>>, "UPPER FACE BUTTONS", MultiLine(upper_buttons))
     @@ SetIf(ReSearch(Cat(<<LitCI(<<"o","p","e","r","a","t","o","r">>), ReSs, LitCI(<<"p","r","e","s","e","n","c","e">>), ReSs, LitCI(<<"p","a","d","d","l","e">>)>>), text), "OPERATOR PRESENCE PADDLE",
              <<"{","\n","N",":"," ","N","o","n","e","|","\n","D",":"," ","O","p","e","r","a","t","o","r"," ","p","r","e","s","e","n","c","e"," ","p","a","d","d","l","e","\n","}">>)
     @@ SetIf(plates # <<>>, "LIMITER PLATE", MultiLine(plates))
     @@ ("SPRING TENSION" :> <<"{","\n","0",":"," ","S","t","a","n","d","a","r","d","\n","}">>)
     @@ SetIf(outputs # <<>>, "OUTPUT OPTIONS", MultiLine(outputs))
     @@ SetIf(addl_opts # <<>>, "ADDITIONAL OPTIONS", MultiLine(addl_opts))
     @@ BaseResult(PRODUCT_TYPES.thumbstick_joystick, filename, <<"T","h","u","m","b","s","t","i","c","k"," ","J","o","y","s","t","i","c","k">>))))))

\* the items whose test holds, in order
Chosen(tests) ==
  Let(SelectSeq(tests, LAMBDA x : x.found), LAMBDA hits :
     [k \in 1..Len(hits) |-> hits[k].label])

extract_fingertip_joystick_data(text, tables, filename) ==
  LET In(s) == Contains(s, Lower(text))
  IN
  Let(Labels(
       <<[re |-> Cat(<<Lit(<<"1">>), Star(Ch({":"} \cup Whitespace)), LitCI(<<"O","n","e">>), ReSs, LitCI(<<"a","x","i","s">>)>>),
         label |-> <<"1",":"," ","O","n","e"," ","a","x","i","s">>],
       [re |-> Cat(<<Lit(<<"2">>), Star(Ch({":"} \cup Whitespace)), LitCI(<<"T","w","o">>), ReSs, LitCI(<<"a","x","i","s">>)>>),
         label |-> <<"2",":"," ","T","w","o"," ","a","x","i","s">>],
       [re |-> Cat(<<LitCI(<<"5","V">>), ReSs, LitCI(<<"o","p","e","r","a","t","i","o","n">>)>>),
         label |-> <<"5","V"," ","o","p","e","r","a","t","i","o","n">>],
       [re |-> Cat(<<Lit(<<"3",".","3">>), ReSs, LitCI(<<"V">>)>>),
         label |-> <<"3",".","3","V"," ","o","p","e","r","a","t","i","o","n">>]>>, text), LAMBDA configs :
  Let(Chosen(<<[found |-> In(<<"a","n","a","l","o","g">>), label |-> <<"A","n","a","l","o","g">>],
                          [found |-> In(<<"p","w","m">>), label |-> <<"P","W","M">>]>>), LAMBDA outputs :
  Let(Chosen(<<[found |-> In(<<"5"," ","v">>) \/ In(<<"5","v">>), label |-> <<"5","V">>],
                           [found |-> In(<<"3",".","3"," ","v">>) \/ In(<<"3",".","3","v">>), label |-> <<"3",".","3","V">>]>>), LAMBDA voltages :
  Let(SearchFrom(Cat(<<LitCI(<<"I","P">>), Plus(ReD)>>), text, 1), LAMBDA sealing :
  Let(Chosen(<<[found |-> In(<<"p","u","s","h","b","u","t","t","o","n">>), label |-> <<"P","u","s","h","b","u","t","t","o","n">>],
                          [found |-> In(<<"b","o","o","t">>), label |-> <<"B","o","o","t">>]>>), LAMBDA options :
     SetIf(configs # <<>>, "CONFIGURATION",
           <<"{","\\","n">> \o Join(<<"|","\\","n">>, configs) \o <<"\\","n","}">>)
     @@ SetIf(In(<<"o","n","e"," ","a","x","i","s">>) \/ In(<<"t","w","o"," ","a","x","i","s">>), "AXIS",
              IF In(<<"o","n","e"," ","a","x","i","s">>) /\ In(<<"t","w","o"," ","a","x","i","s">>) THEN <<"{","1",":"," ","O","n","e"," ","a","x","i","s","|","2",":"," ","T","w","o"," ","a","x","i","s","}">>
              ELSE IF In(<<"t","w","o"," ","a","x","i","s">>) THEN <<"{","2",":"," ","T","w","o"," ","a","x","i","s","}">>
              ELSE <<"{","1",":"," ","O","n","e"," ","a","x","i","s","}">>)
     @@ SetIf(outputs # <<>>, "OUTPUT", Braced(outputs))
     @@ SetIf(voltages # <<>>, "VOLTAGE", Braced(voltages))
     @@ SetIf(sealing # <<>>, "SEALING",
              <<"{">> \o SubSeq(text, sealing[1], sealing[2].e - 1) \o <<"}">>)
     @@ SetIf(In(<<"p","a","n","e","l">>), "MOUNTING", <<"{","P","a","n","e","l"," ","M","o","u","n","t","}">>)
     @@ SetIf(options # <<>>, "OPTIONS", Braced(options))
     @@ BaseResult(PRODUCT_TYPES.fingertip_joystick, filename, <<"F","i","n","g","e","r","t","i","p"," ","J","o","y","s","t","i","c","k">>))))))

\* ranges of extract_terminal_block_data: "a-b AWG" for each match of
\* (\d+)\s*(?:to|~|-)\s*(\d+)\s*AWG
WireRanges(text) ==
  Let(ReMatchesFrom(Cat(<<Grp(1, Plus(ReD)), ReSs, Alt(<<LitCI(<<"t","o">>), Lit(<<"~">>), Lit(<<"-">>)>>), ReSs, Grp(2, Plus(ReD)), ReSs, LitCI(<<"A","W","G">>)>>), text, 1), LAMBDA wire_patterns :
     [k \in 1..Len(wire_patterns) |->
        GroupText(text, wire_patterns[k][2], 1) \o <<"-">>
        \o GroupText(text, wire_patterns[k][2], 2) \o <<" ","A","W","G">>])

\* the orders in which iterating set(ranges) can give its elements: the
\* order of a set of str is not fixed from one run of the interpreter to
\* the next
SetOrders(ranges) ==
  {order \in [1..Cardinality(Range(ranges)) -> Range(ranges)] :
     \A i, j \in DOMAIN order : i # j => order[i] # order[j]}

\* the result for one order of set(ranges)
extract_terminal_block_data(text, tables, filename, order) ==
  LET In(s) == Contains(s, Lower(text))
  IN
  Let(Chosen(<<[found |-> In(<<"t","o","u","c","h","-","d","o","w","n">>) \/ In(<<"t","o","u","c","h","d","o","w","n">>), label |-> <<"T","o","u","c","h","-","d","o","w","n">>],
                        [found |-> In(<<"s","c","r","e","w">>), label |-> <<"S","c","r","e","w">>],
                        [found |-> In(<<"s","t","u","d">>), label |-> <<"S","t","u","d">>]>>), LAMBDA types :
  Let(SearchFrom(Cat(<<Grp(1, Plus(ReD)), ReSs, Lit(<<"V">>), Opt(Alt(<<Lit(<<"A","C">>), Lit(<<"D","C">>)>>))>>), text, 1), LAMBDA voltage_match :
  Let(SearchFrom(Cat(<<Grp(1, Plus(ReD)), ReSs, Lit(<<"A">>), WB>>), text, 1), LAMBDA current_match :
  Let(
        (IF voltage_match # <<>>
         THEN <<SubSeq(text, voltage_match[1], voltage_match[2].e - 1)>> ELSE <<>>)
        \o (IF current_match # <<>>
            THEN <<SubSeq(text, current_match[1], current_match[2].e - 1) \o <<"A">>>>
            ELSE <<>>), LAMBDA ratings :
  Let(Chosen(<<[found |-> In(<<"d","i","n"," ","r","a","i","l">>), label |-> <<"D","I","N"," ","R","a","i","l">>],
                           [found |-> Contains(<<"3","5">>, text) /\ In(<<"m","m">>), label |-> <<"3","5","m","m"," ","D","I","N"," ","R","a","i","l">>],
                           [found |-> In(<<"i","e","c">>), label |-> <<"I","E","C"," ","T","y","p","e"," ","C"," ","R","a","i","l">>]>>), LAMBDA mounting :
  Let(Chosen(<<[found |-> In(<<"u","l">>), label |-> <<"U","L">>],
                        [found |-> In(<<"c","s","a">>), label |-> <<"C","S","A">>],
                        [found |-> In(<<"t","Atilde","frac14","v">>) \/ In(<<"t","u","v">>), label |-> <<"T","Atilde","oelig","V">>]>>), LAMBDA certs :
     SetIf(types # <<>>, "TERMINAL TYPE", Braced(types))
     @@ SetIf(WireRanges(text) # <<>>, "WIRE RANGE", Braced(order))
     @@ SetIf(ratings # <<>>, "RATING", Braced(ratings))
     @@ SetIf(mounting # <<>>, "MOUNTING", Braced(mounting))
     @@ SetIf(certs # <<>>, "CERTIFICATIONS", Braced(certs))
     @@ SetIf(In(<<"u","l","9","4","v","-","0">>) \/ In(<<"u","l"," ","9","4","v","-","0">>), "MATERIAL", <<"{","U","L","9","4","V","-","0","}">>)
     @@ SetIf(In(<<"m","a","r","k","i","n","g"," ","s","t","r","i","p">>), "MARKING", <<"{","M","a","r","k","i","n","g"," ","s","t","r","i","p"," ","a","v","a","i","l","a","b","l","e","}">>)
     @@ BaseResult(PRODUCT_TYPES.terminal_block, filename, <<"T","e","r","m","i","n","a","l"," ","B","l","o","c","k">>)))))))

extract_led_indicator_data(text, tables, filename) ==
  [col \in Range(PRODUCT_TYPES.led_indicator) \cup {"_PRODUCT_TYPE"} |->
     CASE col = "SERIES" -> extract_series_from_filename(filename)
       [] col = "_PRODUCT_TYPE" -> <<"L","E","D"," ","I","n","d","i","c","a","t","o","r">>
       [] col = "MOUNTING HOLE" -> extract_mounting_hole(text, tables)
       [] col = "VOLTAGE" -> extract_voltage(text, tables)
       [] col = "SEALING" -> extract_sealing(text, tables)
       [] col = "LED COLOR" -> extract_led_color(text, tables)
       [] col = "TYPE OF ILLUMINATION" -> extract_illumination_type(text, tables)
       [] col = "BEZEL STYLE" -> extract_bezel_style(text, tables)
       [] col = "TERMINALS" -> extract_terminals(text, tables)
       [] col = "BEZEL FINISH" -> extract_bezel_finish(text, tables)]

\* ------------------------------------------------------------------------
\* Confidence analysis (extract_python.py)
\* ------------------------------------------------------------------------

\* the keys for which field.startswith('_') holds
InternalKeys ==
  {"_PRODUCT_TYPE", "_validation", "_confidence_score", "_confidence_level",
   "_raw_text", "_pages_text"}

\* s.count(c)
Count(c, s) == Cardinality({i \in 1..Len(s) : s[i] = c})

\* The page whose text holds one of the first two options of the value;
\* 0 stands for None
find_value_page(value, pages_text) ==
  IF pages_text = <<>> \/ ~Truthy(value) THEN 0
  ELSE Let(ReplaceChar(ReplaceChar(ReplaceChar(value, "{", <<>>), "}", <<>>),
                                "\n", <<" ">>), LAMBDA clean :
       Let(Split(clean, "|"), LAMBDA parts :
       LET Term(p) == IF Count(":", p) > 0
                      THEN Strip(Split(p, ":")[Len(Split(p, ":"))])
                      ELSE Strip(p)
       IN
       Let(IF Count("{", value) > 0
                           THEN [k \in 1..(IF Len(parts) < 2 THEN Len(parts) ELSE 2) |->
                                   Term(parts[k])]
                           ELSE <<value>>, LAMBDA search_terms :
       Let({n \in 1..Len(pages_text) :
                       \E k \in 1..Len(search_terms) :
                         Contains(Lower(search_terms[k]), Lower(pages_text[n]))}, LAMBDA pages :
          IF pages = {} THEN 0 ELSE CHOOSE n \in pages : \A m \in pages : n <= m))))

\* One entry of the validation metadata. confidence, icon, reason and
\* source are written as strings, "None" standing for None
Meta(confidence, icon, reason, source, page) ==
  [confidence |-> confidence, icon |-> icon, reason |-> reason,
   source |-> source, page |-> page]

\* a faulty analyze_extraction_confidence: a coded value needs three options
\* to be high
AnalyzeWantingThreeOptions(result, text, pages_text) ==
  [field \in DOMAIN result \ InternalKeys |->
     Let(result[field], LAMBDA value :
     Let(IF pages_text # <<>> THEN find_value_page(value, pages_text) ELSE 0, LAMBDA page :
     Let(IF Count("|", value) > 0 THEN Count("|", value) + 1 ELSE 1, LAMBDA num_options :
        IF value = NA
        THEN Meta("low", "red", "Value not found in PDF", "None", 0)
        ELSE IF field = "SERIES"
        THEN Meta("high", "green", "Extracted from filename", "Filename", 0)
        ELSE IF Count("{", value) > 0 /\ Count(":", value) > 0
        THEN (IF num_options >= 3
              THEN Meta("high", "green",
                        "Found " \o ToString(num_options) \o " options with code format",
                        "Table/Ordering Info", page)
              ELSE Meta("medium", "yellow", "Single option found", "Table/Text", page))
        ELSE IF Count("{", value) > 0
        THEN Meta("medium", "yellow", "Value found but no code mapping", "Text search", page)
        ELSE Meta("medium", "yellow", "Basic value extracted", "Text", 0))))]

analyze_extraction_confidence(result, text, pages_text) ==
  [field \in DOMAIN result \ InternalKeys |->
     Let(result[field], LAMBDA value :
     Let(IF pages_text # <<>> THEN find_value_page(value, pages_text) ELSE 0, LAMBDA page :
     Let(IF Count("|", value) > 0 THEN Count("|", value) + 1 ELSE 1, LAMBDA num_options :
        IF value = NA
        THEN Meta("low", "red", "Value not found in PDF", "None", 0)
        ELSE IF field = "SERIES"
        THEN Meta("high", "green", "Extracted from filename", "Filename", 0)
        ELSE IF Count("{", value) > 0 /\ Count(":", value) > 0
        THEN (IF num_options >= 2
              THEN Meta("high", "green",
                        "Found " \o ToString(num_options) \o " options with code format",
                        "Table/Ordering Info", page)
              ELSE Meta("medium", "yellow", "Single option found", "Table/Text", page))
        ELSE IF Count("{", value) > 0
        THEN Meta("medium", "yellow", "Value found but no code mapping", "Text search", page)
        ELSE Meta("medium", "yellow", "Basic value extracted", "Text", 0))))]

\* a faulty calculate_overall_confidence: the percentage is rounded up
OverallRoundedUp(validation) ==
  Let(Cardinality(DOMAIN validation), LAMBDA count :
  LET With(conf) == Cardinality({f \in DOMAIN validation : validation[f].confidence = conf})
  IN
  Let(3 * With("high") + 2 * With("medium")
                     + (count - With("high") - With("medium")), LAMBDA total_score :
  Let((100 * total_score + 3 * count - 1) \div (3 * count), LAMBDA percent :
     IF count = 0 THEN <<0, "low">>
     ELSE IF 2 * total_score >= 5 * count THEN <<percent, "high">>
     ELSE IF 5 * total_score >= 9 * count THEN <<percent, "medium">>
     ELSE <<percent, "low">>)))

\* <<score, level>>. int((avg_score / 3) * 100) and the two thresholds are
\* computed on integers: total_score / count >= 2.5 iff 2 * total_score >=
\* 5 * count, and >= 1.8 iff 5 * total_score >= 9 * count. The doubles of
\* the code give the same percentage and level as the integers for every
\* map of fewer than 20 fields; the schemas have 9 fields at most
calculate_overall_confidence(validation) ==
  Let(Cardinality(DOMAIN validation), LAMBDA count :
  LET With(conf) == Cardinality({f \in DOMAIN validation : validation[f].confidence = conf})
  IN
  Let(3 * With("high") + 2 * With("medium")
                     + (count - With("high") - With("medium")), LAMBDA total_score :
  Let((100 * total_score) \div (3 * count), LAMBDA percent :
     IF count = 0 THEN <<0, "low">>
     ELSE IF 2 * total_score >= 5 * count THEN <<percent, "high">>
     ELSE IF 5 * total_score >= 9 * count THEN <<percent, "medium">>
     ELSE <<percent, "low">>)))

\* ------------------------------------------------------------------------
\* Top-level entry points
\* ------------------------------------------------------------------------

\* A PDF: whether pdfplumber can open it and, for each page, the text and
\* the tables that extract_text() and extract_tables() give
Pdf(readable, pages) == [readable |-> readable, pages |-> pages]

Page(text, tables) == [text |-> text, tables |-> tables]

\* the exception pdfplumber.open raises on a file that is not a PDF
PdfOpenError == <<"PdfOpenError">>

\* all_text: the non-empty page texts, each followed by a newline
AllText(pdf) ==
  FlatCat([n \in 1..Len(pdf.pages) |->
             IF pdf.pages[n].text # <<>> THEN pdf.pages[n].text \o <<"\n">> ELSE <<>>])

AllTables(pdf) == FlatCat([n \in 1..Len(pdf.pages) |-> pdf.pages[n].tables])

PagesText(pdf) == [n \in 1..Len(pdf.pages) |-> pdf.pages[n].text]

\* the "except Exception as e" branch of parse_pdf and extract_from_buffer:
\* the record it returns, or the IndexError that
\* extract_series_from_filename raises from inside the handler
ErrorResult(filename, e) ==
  Let(extract_series_from_filename(filename), LAMBDA series :
     IF series = IndexError THEN Raise(IndexError)
     ELSE Return(("SERIES" :> series)
                 @@ ("_PRODUCT_TYPE" :> <<"U","n","k","n","o","w","n">>)
                 @@ ("_validation" :> <<>>)
                 @@ ("_confidence_score" :> 0)
                 @@ ("_confidence_level" :> "low")
                 @@ ("ERROR" :> e)))

\* "Extract based on product type"; order is the iteration order of
\* set(ranges) in extract_terminal_block_data
ExtractByType(product_type, all_text, all_tables, filename, order) ==
  IF product_type = <<"p","a","d","d","l","e","_","j","o","y","s","t","i","c","k">>
  THEN extract_paddle_joystick_data(all_text, all_tables, filename)
  ELSE IF product_type = <<"t","h","u","m","b","s","t","i","c","k","_","j","o","y","s","t","i","c","k">>
  THEN extract_thumbstick_data(all_text, all_tables, filename)
  ELSE IF product_type = <<"f","i","n","g","e","r","t","i","p","_","j","o","y","s","t","i","c","k">>
  THEN extract_fingertip_joystick_data(all_text, all_tables, filename)
  ELSE IF product_type = <<"t","e","r","m","i","n","a","l","_","b","l","o","c","k">>
  THEN extract_terminal_block_data(all_text, all_tables, filename, order)
  ELSE extract_led_indicator_data(all_text, all_tables, filename)

parse_pdf(pdf, filename, order) ==
  IF ~pdf.readable THEN ErrorResult(filename, PdfOpenError)
  ELSE Let(AllText(pdf), LAMBDA all_text :
       Let(AllTables(pdf), LAMBDA all_tables :
       Let(PagesText(pdf), LAMBDA pages_text :
       Let(detect_product_type(all_text, filename), LAMBDA product_type :
          IF product_type = IndexError THEN ErrorResult(filename, IndexError)
          ELSE Let(ExtractByType(product_type, all_text, all_tables,
                                           filename, order), LAMBDA result :
               Let(analyze_extraction_confidence(result, all_text, pages_text), LAMBDA validation :
               Let(calculate_overall_confidence(validation), LAMBDA overall :
                  IF result["SERIES"] = IndexError THEN ErrorResult(filename, IndexError)
                  ELSE Return(result
                              @@ ("_validation" :> validation)
                              @@ ("_confidence_score" :> overall[1])
                              @@ ("_confidence_level" :> overall[2])))))))))

\* extract_python.extract_from_buffer: the statements of parse_pdf, and on
\* success the two keys '_raw_text' and '_pages_text'
extract_from_buffer(pdf, filename, order) ==
  Let(parse_pdf(pdf, filename, order), LAMBDA parsed :
     IF parsed.raised # PyNone \/ "ERROR" \in DOMAIN parsed.value THEN parsed
     ELSE Return(parsed.value
                 @@ ("_raw_text" :> AllText(pdf))
                 @@ ("_pages_text" :> PagesText(pdf))))

\* the keys of a result in the order of their insertion: the columns of its
\* product type
ColumnsOf(result) ==
  Let(Get(result, "_PRODUCT_TYPE"), LAMBDA name :
     IF name = <<"P","a","d","d","l","e"," ","J","o","y","s","t","i","c","k">> THEN PRODUCT_TYPES.paddle_joystick
     ELSE IF name = <<"T","h","u","m","b","s","t","i","c","k"," ","J","o","y","s","t","i","c","k">> THEN PRODUCT_TYPES.thumbstick_joystick
     ELSE IF name = <<"F","i","n","g","e","r","t","i","p"," ","J","o","y","s","t","i","c","k">> THEN PRODUCT_TYPES.fingertip_joystick
     ELSE IF name = <<"T","e","r","m","i","n","a","l"," ","B","l","o","c","k">> THEN PRODUCT_TYPES.terminal_block
     ELSE PRODUCT_TYPES.led_indicator)

get_low_confidence_fields(result) ==
  Let(GetOr(result, "_validation", <<>>), LAMBDA validation :
  LET Low(field) == /\ field \in DOMAIN validation
                    /\ \/ validation[field].confidence = "low"
                       \/ validation[field].source = "None"
  IN
  Let(SelectSeq(ColumnsOf(result), Low), LAMBDA fields :
     [k \in 1..Len(fields) |->
        [field |-> fields[k],
         current_value |-> GetOr(result, fields[k], NA),
         reason |-> validation[fields[k]].reason,
         confidence |-> validation[fields[k]].confidence]]))

\* extract_data_deterministic.extract_from_buffer: every exception is
\* logged and the specs set so far are returned
extract_from_buffer_det(pdf, filename) ==
  Let(extract_series_from_filename(filename), LAMBDA series :
  Let(AllText(pdf), LAMBDA all_text :
  Let(AllTables(pdf), LAMBDA all_tables :
     IF series = IndexError THEN [specs |-> <<>>, model_codes |-> <<>>]
     ELSE IF ~pdf.readable
     THEN [specs |-> ("SERIES" :> series), model_codes |-> <<>>]
     ELSE [specs |->
             ("SERIES" :> series)
             @@ ("MOUNTING HOLE" :> extract_mounting_hole_det(all_text, all_tables))
             @@ ("VOLTAGE" :> extract_voltage_det(all_text, all_tables))
             @@ ("SEALING" :> extract_sealing_det(all_text, all_tables))
             @@ ("LED COLOR" :> extract_led_color_det(all_text, all_tables))
             @@ ("TYPE OF ILLUMINATION" :> extract_illumination_type(all_text, all_tables))
             @@ ("BEZEL STYLE" :> extract_bezel_style(all_text, all_tables))
             @@ ("TERMINALS" :> extract_terminals(all_text, all_tables))
             @@ ("BEZEL FINISH" :> extract_bezel_finish(all_text, all_tables)),
           model_codes |-> extract_model_codes(all_text, all_tables, series)])))

\* ------------------------------------------------------------------------
\* AI extraction (extract_ai.py)
\* ------------------------------------------------------------------------

max_retries == 3

\* the number of images render_pdf_to_images returns: none when the bytes
\* cannot be opened
render_pdf_to_images(pdf, max_pages) ==
  IF ~pdf.readable THEN 0
  ELSE IF Len(pdf.pages) < max_pages THEN Len(pdf.pages) ELSE max_pages

\* dict.get(key) on a parsed JSON object
HasKey(obj, key) == \E i \in 1..Len(obj.val) : obj.val[i][1] = key

Member(obj, key) ==
  obj.val[CHOOSE i \in 1..Len(obj.val) :
            /\ obj.val[i][1] = key
            /\ \A j \in (i + 1)..Len(obj.val) : obj.val[j][1] # key][2]

\* the products extract_with_openai returns for the parsed response
OpenAIProducts(result) ==
  IF result.kind = "obj"
  THEN Let(IF HasKey(result, "products") THEN Member(result, "products")
                       ELSE IF HasKey(result, "data") THEN Member(result, "data")
                       ELSE JArr(<<result>>), LAMBDA products :
          IF products.kind = "arr" THEN products.val ELSE <<result>>)
  ELSE IF result.kind = "arr" THEN result.val ELSE <<result>>

\* the products extract_with_google returns for the parsed response
GoogleProducts(result) ==
  IF result.kind = "arr" THEN result.val ELSE <<result>>

ProductsOf(provider, result) ==
  IF provider = "openai" THEN OpenAIProducts(result) ELSE GoogleProducts(result)

\* 2 ** n
RECURSIVE Pow2(_)
Pow2(n) == IF n = 0 THEN 1 ELSE 2 * Pow2(n - 1)

\* the sleeps of one failed attempt (0-based): the quota handler of
\* extract_with_google always sleeps, the general handler of both
\* providers sleeps unless the attempt was the last
SleepsAfter(provider, failure, attempt) ==
  IF provider = "google" /\ failure = "ResourceExhausted" THEN <<Pow2(attempt + 1)>>
  ELSE IF attempt < max_retries - 1 THEN <<Pow2(attempt)>>
  ELSE <<>>

Failures(provider) ==
  IF provider = "google" THEN {"Exception", "ResourceExhausted"} ELSE {"Exception"}

\* ------------------------------------------------------------------------
\* Inputs: uploaded files and AI responses
\* ------------------------------------------------------------------------

\* the longest document, in pages
MaxPages == 2

\* the longest list of candidates in an AI response
MaxCandidates == 2

\* Named files and the pages of their PDF
Library ==
  <<[name |-> <<"H","S","1","T","-","s","e","r","i","e","s",".","p","d","f">>,
     pages |-> <<Page(<<"H","S","1","T","-","V","4","4","Z","M","-","G"," ","H","S","1","T","-","C","I","R","C","U","I","T","-","1">>,
                      <<<<<<<<"C","o","d","e">>, <<"C","o","l","o","r">>>>, <<<<"R">>, <<"R","e","d">>>>, <<<<"G">>, <<"G","r","e","e","n">>>>>>>>),
                 Page(<<"Oslash","2","2","m","m"," ","Oslash","3","0"," ","r","e","d"," ","g","r","e","e","n">>, <<>>)>>],
    [name |-> <<"A","P","2","2",".","p","d","f">>,
     pages |-> <<Page(<<"I","P","6","5"," ","i","p"," ","6","7"," ","2","4","V"," ","D","C">>,
                      <<<<<<<<"A">>, <<"I","P","6","5">>>>, <<<<"B">>, <<"I","P","6","5">>>>>>>>),
                 Page(<<"F","l","u","s","h"," ","L","E","D"," ","S","o","l","d","e","r"," ","c","h","r","o","m","e"," ","1","2","V"," ","A","C","/","D","C">>,
                      <<<<<<<<"F">>, <<"F","l","u","s","h">>>>, <<<<"G">>, <<"F","l","u","s","h">>>>>>>>)>>],
    [name |-> <<"l","a","m","p"," ","1","6",".","p","d","f">>,
     pages |-> <<Page(<<"p","a","n","e","l"," ","c","u","t","o","u","t"," ","2","2">>, <<>>), Page(<<>>, <<>>)>>],
    [name |-> <<"B","H","N","2",".","p","d","f">>,
     pages |-> <<Page(<<"D","0","1"," ","c","e","n","t","r","e"," ","d","e","t","e","n","t"," ","B","K"," ","b","l","a","c","k"," ","h","a","n","d","l","e">>, <<>>)>>],
    [name |-> <<"b","n","-","w",".","p","d","f">>,
     pages |-> <<Page(<<"2","2"," ","t","o"," ","1","2"," ","A","W","G"," ","1","0","~","8","a","w","g"," ","6","0","0","V"," ","3","0"," ","A">>, <<>>)>>],
    [name |-> <<"c","j","_","1",".","p","d","f">>,
     pages |-> <<Page(<<"N",":"," ","N","o","n","e"," ","3"," ","t","h","r","e","e"," ","o","p","e","r","a","t","o","r"," ","p","r","e","s","e","n","c","e"," ","p","a","d","d","l","e">>, <<>>)>>],
    [name |-> <<"x","s"," ","2",".","p","d","f">>,
     pages |-> <<Page(<<"2",":"," ","T","w","o"," ","A","x","i","s"," ","5","V"," ","o","p","e","r","a","t","i","o","n"," ","I","P","6","7">>, <<>>)>>],
    [name |-> <<" ",".","p","d","f">>,
     pages |-> <<Page(<<"b","h","n"," ","s","e","r","i","e","s"," ","0","5",":"," ","5"," ","d","e","g","r","e","e","s">>, <<>>)>>],
    [name |-> <<".","p","d","f">>,
     pages |-> <<Page(<<"I","P","6","5">>, <<>>)>>]>>

\* The files a user can upload: a library file cut to at most MaxPages
\* pages, or a file of that name that is not a readable PDF
UploadedFiles ==
  {[name |-> Library[i].name, pdf |-> Pdf(TRUE, Take(Library[i].pages, n))] :
     i \in 1..Len(Library), n \in 0..MaxPages}
  \cup {[name |-> Library[i].name, pdf |-> Pdf(FALSE, <<>>)] : i \in 1..Len(Library)}

\* Candidates an AI response can list
Candidates ==
  <<JObj(<<<<"MODEL_CODE", JStr(<<"H","S","1","T","-","V","4","4","Z","M","-","G">>)>>, <<"SERIES", JStr(<<"H","S","1","T">>)>>,
           <<"MOUNTING_HOLE", JStr(<<"2","2","m","m">>)>>, <<"VOLTAGE", JStr(<<"2","4","V">>)>>,
           <<"SEALING", JStr(<<"N","/","A">>)>>, <<"LED_COLOR", JNull>>,
           <<"TERMINALS", JStr(<<"n","u","l","l">>)>>, <<"BEZEL_STYLE", JStr(<<>>)>>>>),
    JObj(<<<<"MODEL_CODE", JStr(<<"h","s","1","t","-","v","4","4","z","m","-","g">>)>>, <<"VOLTAGE", JStr(<<"1","2","V">>)>>,
           <<"SEALING", JStr(<<"I","P","4","0">>)>>>>),
    JObj(<<<<"MODEL_CODE", JStr(<<"V","O","L","T","A","G","E","-","2","4">>)>>, <<"SERIES", JStr(<<"A","P">>)>>>>),
    JObj(<<<<"MODEL_CODE", JStr(<<"A","B","\t","1","2","X">>)>>>>),
    JObj(<<<<"MODEL_CODE", JStr(<<"H","S","1","T","-","C","I","R","C","U","I","T","-","1">>)>>, <<"VOLTAGE", JStr(<<"6","V">>)>>>>),
    JObj(<<<<"MODEL_CODE", JNull>>, <<"LED_COLOR", JStr(<<"{","R",":","R","e","d","}">>)>>>>)>>

\* the AI responses that are a list of at most MaxCandidates candidates
CandidateLists ==
  {[k \in 1..Len(idx) |-> Candidates[idx[k]]] :
     idx \in UNION {[1..n -> 1..Len(Candidates)] : n \in 0..MaxCandidates}}

\* AI responses of another shape: a wrapper object, a single candidate,
\* null, a string, and a list with an element that is not an object
OtherResponses ==
  <<JObj(<<<<"products", JArr(<<Candidates[1], Candidates[3]>>)>>>>),
    Candidates[2],
    JObj(<<<<"products", JNull>>>>),
    JNull,
    JStr(<<"n","o"," ","p","r","o","d","u","c","t","s"," ","f","o","u","n","d">>),
    JArr(<<Candidates[1], JStr(<<"s","e","e"," ","p","a","g","e"," ","2">>)>>),
    JArr(<<JNull>>)>>

\* ------------------------------------------------------------------------
\* The two Streamlit scripts: app.py and pages/1_Extractor.py
\* ------------------------------------------------------------------------

VARIABLES
  script,          \* "app" or "extractor": the script whose button was pressed
  uploaded_file,   \* the file being processed: its name and its PDF
  use_hybrid,      \* use_hybrid and api_key
  provider,        \* "openai" or "google"
  pc,              \* "idle", "ai_call" (inside extract_with_ai), "done", "raised"
  python_result,   \* what extract_from_buffer returned, AI enhancement included
  low_conf_fields, \* extractor: get_low_confidence_fields(python_result)
  images,          \* the number of rendered page images
  attempt,         \* the attempts of extract_with_ai made so far
  sleeps,          \* the time.sleep calls of extract_with_ai, in seconds
  ai_raw,          \* what extract_with_ai returned
  ai_products,     \* normalize_ai_output(ai_raw)
  merged,          \* app: merge_product_data(ai_products, python_result)
  file_results,    \* app: the formatted products; extractor: the output row
  raised,          \* the exception that ended the script, or None
  call             \* a function called on its own: its name, arguments, result

vars ==
  <<script, uploaded_file, use_hybrid, provider, pc, python_result,
    low_conf_fields, images, attempt, sleeps, ai_raw, ai_products,
    merged, file_results, raised, call>>

\* no function is called on its own while a script runs
NoCall == [fn |-> "none", args |-> <<>>, returned |-> FALSE, result |-> <<>>]

\* no script runs
Idle ==
  /\ script = "app"
  /\ uploaded_file = [name |-> <<>>, pdf |-> Pdf(FALSE, <<>>)]
  /\ use_hybrid = FALSE
  /\ provider = "openai"
  /\ pc = "idle"
  /\ python_result = <<>>
  /\ low_conf_fields = <<>>
  /\ images = 0
  /\ attempt = 0
  /\ sleeps = <<>>
  /\ ai_raw = <<>>
  /\ ai_products = <<>>
  /\ merged = <<>>
  /\ file_results = <<>>
  /\ raised = PyNone

Init ==
  /\ Idle
  /\ call = NoCall

\* app.py from normalize_ai_output on: Step 3, or the exception
\* normalize_ai_output raises
AppFinish(raw, result) ==
  Let(normalize_ai_output(raw), LAMBDA normalized :
     /\ ai_raw' = raw
     /\ python_result' = result
     /\ IF normalized.raised # PyNone
        THEN /\ pc' = "raised"
             /\ raised' = normalized.raised
             /\ ai_products' = <<>>
             /\ merged' = <<>>
             /\ file_results' = <<>>
        ELSE /\ pc' = "done"
             /\ raised' = PyNone
             /\ ai_products' = normalized.value
             /\ merged' = merge_product_data(normalized.value, result)
             /\ file_results' = format_for_output(merged'))

\* "Start Extraction" of app.py for one uploaded file, up to the first API
\* call of extract_with_ai or, without one, to the end
AppStart(file, hybrid, prov) ==
  /\ pc = "idle"
  /\ UNCHANGED call
  /\ script' = "app"
  /\ uploaded_file' = file
  /\ use_hybrid' = hybrid
  /\ provider' = prov
  /\ low_conf_fields' = <<>>
  /\ attempt' = 0
  /\ sleeps' = <<>>
  /\ Let(extract_from_buffer_det(file.pdf, file.name), LAMBDA result :
     Let(IF hybrid THEN render_pdf_to_images(file.pdf, 10) ELSE 0, LAMBDA n :
        /\ images' = n
        /\ IF n > 0
           THEN /\ pc' = "ai_call"
                /\ python_result' = result
                /\ ai_raw' = <<>>
                /\ ai_products' = <<>>
                /\ merged' = <<>>
                /\ file_results' = <<>>
                /\ raised' = PyNone
           ELSE AppFinish(<<>>, result)))

\* output_row: the keys of python_result that do not start with '_'
OutputRow(result) == [k \in DOMAIN result \ InternalKeys |-> result[k]]

\* a faulty Enhance: the overall score and level are computed again from
\* the updated validation entries
EnhanceAndRescore(result, lows, ai_data) ==
  Let(result["_validation"], LAMBDA validation :
  Let({lows[k].field : k \in {j \in 1..Len(lows) :
                   /\ Truthy(Get(ai_data, lows[j].field))
                   /\ ~IsSentinel(Get(ai_data, lows[j].field))}}, LAMBDA filled :
  Let([f \in DOMAIN validation |->
                IF f \in filled
                THEN [validation[f] EXCEPT !.confidence = "medium", !.icon = "yellow",
                                           !.source = "AI Enhanced"]
                ELSE validation[f]], LAMBDA updated :
     [k \in DOMAIN result |->
        IF k \in filled THEN ai_data[k]
        ELSE IF k = "_validation" THEN updated
        ELSE IF k = "_confidence_score" THEN calculate_overall_confidence(updated)[1]
        ELSE IF k = "_confidence_level" THEN calculate_overall_confidence(updated)[2]
        ELSE result[k]])))

\* a faulty Enhance: every field for which the first AI product has a
\* value is overwritten, flagged or not
EnhanceEveryField(result, lows, ai_data) ==
  Let(result["_validation"], LAMBDA validation :
  Let({f \in DOMAIN validation :
                   /\ Truthy(Get(ai_data, f))
                   /\ ~IsSentinel(Get(ai_data, f))}, LAMBDA filled :
     [k \in DOMAIN result |->
        IF k \in filled THEN ai_data[k]
        ELSE IF k = "_validation"
        THEN [f \in DOMAIN validation |->
                IF f \in filled
                THEN [validation[f] EXCEPT !.confidence = "medium", !.icon = "yellow",
                                           !.source = "AI Enhanced"]
                ELSE validation[f]]
        ELSE result[k]]))

\* "Merge: Python as base, AI fills gaps": the low-confidence fields for
\* which the first AI product has a value are overwritten, and their
\* validation entries updated
Enhance(result, lows, ai_data) ==
  Let(result["_validation"], LAMBDA validation :
  Let({lows[k].field : k \in {j \in 1..Len(lows) :
                   /\ Truthy(Get(ai_data, lows[j].field))
                   /\ ~IsSentinel(Get(ai_data, lows[j].field))}}, LAMBDA filled :
     [k \in DOMAIN result |->
        IF k \in filled THEN ai_data[k]
        ELSE IF k = "_validation"
        THEN [f \in DOMAIN validation |->
                IF f \in filled
                THEN [validation[f] EXCEPT !.confidence = "medium", !.icon = "yellow",
                                           !.source = "AI Enhanced"]
                ELSE validation[f]]
        ELSE result[k]]))

\* a faulty ExtractorFinish: the last AI product is the one consulted
ExtractorFinishLastProduct(raw, result, lows) ==
  Let(normalize_ai_output(raw), LAMBDA normalized :
  Let(IF normalized.value # <<>>
                  THEN Enhance(result, lows, normalized.value[Len(normalized.value)])
                  ELSE result, LAMBDA enhanced :
     /\ ai_raw' = raw
     /\ IF normalized.raised # PyNone
        THEN /\ pc' = "raised"
             /\ raised' = normalized.raised
             /\ python_result' = result
             /\ ai_products' = <<>>
             /\ merged' = <<>>
             /\ file_results' = <<>>
        ELSE /\ pc' = "done"
             /\ raised' = PyNone
             /\ python_result' = enhanced
             /\ ai_products' = normalized.value
             /\ merged' = <<>>
             /\ file_results' = <<OutputRow(enhanced)>>))

\* pages/1_Extractor.py from normalize_ai_output on
ExtractorFinish(raw, result, lows) ==
  Let(normalize_ai_output(raw), LAMBDA normalized :
  Let(IF normalized.value # <<>>
                  THEN Enhance(result, lows, normalized.value[1])
                  ELSE result, LAMBDA enhanced :
     /\ ai_raw' = raw
     /\ IF normalized.raised # PyNone
        THEN /\ pc' = "raised"
             /\ raised' = normalized.raised
             /\ python_result' = result
             /\ ai_products' = <<>>
             /\ merged' = <<>>
             /\ file_results' = <<>>
        ELSE /\ pc' = "done"
             /\ raised' = PyNone
             /\ python_result' = enhanced
             /\ ai_products' = normalized.value
             /\ merged' = <<>>
             /\ file_results' = <<OutputRow(enhanced)>>))

\* the iteration orders of set(ranges) that a run can see
Orders(file) ==
  IF file.pdf.readable
     /\ detect_product_type(AllText(file.pdf), file.name) = <<"t","e","r","m","i","n","a","l","_","b","l","o","c","k">>
  THEN SetOrders(WireRanges(AllText(file.pdf)))
  ELSE {<<>>}

\* "Start Extraction" of pages/1_Extractor.py for one uploaded file, up to
\* the first API call of extract_with_ai or, without one, to the end
ExtractorStart(file, hybrid, prov, order) ==
  /\ pc = "idle"
  /\ UNCHANGED call
  /\ script' = "extractor"
  /\ uploaded_file' = file
  /\ use_hybrid' = hybrid
  /\ provider' = prov
  /\ attempt' = 0
  /\ sleeps' = <<>>
  /\ Let(extract_from_buffer(file.pdf, file.name, order), LAMBDA outcome :
     Let(get_low_confidence_fields(outcome.value), LAMBDA lows :
     Let(IF hybrid /\ lows # <<>> THEN render_pdf_to_images(file.pdf, 5) ELSE 0, LAMBDA n :
        IF outcome.raised # PyNone
        THEN /\ pc' = "raised"
             /\ raised' = outcome.raised
             /\ python_result' = <<>>
             /\ low_conf_fields' = <<>>
             /\ images' = 0
             /\ ai_raw' = <<>>
             /\ ai_products' = <<>>
             /\ merged' = <<>>
             /\ file_results' = <<>>
        ELSE /\ low_conf_fields' = lows
             /\ images' = n
             /\ IF n > 0
                THEN /\ pc' = "ai_call"
                     /\ python_result' = outcome.value
                     /\ ai_raw' = <<>>
                     /\ ai_products' = <<>>
                     /\ merged' = <<>>
                     /\ file_results' = <<>>
                     /\ raised' = PyNone
                ELSE IF hybrid /\ lows # <<>>
                THEN ExtractorFinish(<<>>, outcome.value, lows)
                ELSE /\ pc' = "done"
                     /\ python_result' = outcome.value
                     /\ ai_raw' = <<>>
                     /\ ai_products' = <<>>
                     /\ merged' = <<>>
                     /\ file_results' = <<OutputRow(outcome.value)>>
                     /\ raised' = PyNone)))

\* the script after extract_with_ai returned raw
Finish(raw) ==
  IF script = "app" THEN AppFinish(raw, python_result)
  ELSE ExtractorFinish(raw, python_result, low_conf_fields)

\* One attempt of extract_with_openai or extract_with_google whose API
\* call answers with JSON text that parses to result: the products are
\* returned and the script runs to its end
AiRespond(result) ==
  /\ pc = "ai_call"
  /\ attempt' = attempt + 1
  /\ Finish(ProductsOf(provider, result))
  /\ UNCHANGED <<script, uploaded_file, use_hybrid, provider, low_conf_fields,
                 images, sleeps, call>>

\* a faulty AiFail: one more attempt is made after max_retries failed
AiFailOnceMore(failure) ==
  /\ pc = "ai_call"
  /\ failure \in Failures(provider)
  /\ attempt' = attempt + 1
  /\ sleeps' = sleeps \o SleepsAfter(provider, failure, attempt)
  /\ IF attempt + 1 < max_retries + 1
     THEN UNCHANGED <<pc, python_result, ai_raw, ai_products, merged, file_results,
                      raised>>
     ELSE Finish(<<>>)
  /\ UNCHANGED <<script, uploaded_file, use_hybrid, provider, low_conf_fields, images,
                 call>>

\* One attempt whose API call or JSON parsing raises: the handler sleeps,
\* and after the last attempt [] is returned and the script runs to its end
AiFail(failure) ==
  /\ pc = "ai_call"
  /\ failure \in Failures(provider)
  /\ attempt' = attempt + 1
  /\ sleeps' = sleeps \o SleepsAfter(provider, failure, attempt)
  /\ IF attempt + 1 < max_retries
     THEN UNCHANGED <<pc, python_result, ai_raw, ai_products, merged, file_results,
                      raised>>
     ELSE Finish(<<>>)
  /\ UNCHANGED <<script, uploaded_file, use_hybrid, provider, low_conf_fields, images,
                 call>>

\* the next uploaded file, or the next press of the button
NextFile ==
  /\ pc \in {"done", "raised"}
  /\ pc' = "idle"
  /\ script' = "app"
  /\ uploaded_file' = [name |-> <<>>, pdf |-> Pdf(FALSE, <<>>)]
  /\ use_hybrid' = FALSE
  /\ provider' = "openai"
  /\ python_result' = <<>>
  /\ low_conf_fields' = <<>>
  /\ images' = 0
  /\ attempt' = 0
  /\ sleeps' = <<>>
  /\ ai_raw' = <<>>
  /\ ai_products' = <<>>
  /\ merged' = <<>>
  /\ file_results' = <<>>
  /\ raised' = PyNone
  /\ UNCHANGED call

Next ==
  \/ \E file \in UploadedFiles, hybrid \in BOOLEAN, prov \in {"openai", "google"} :
       AppStart(file, hybrid, prov)
  \/ \E file \in UploadedFiles, hybrid \in BOOLEAN, prov \in {"openai", "google"} :
       \E order \in Orders(file) : ExtractorStart(file, hybrid, prov, order)
  \/ \E products \in CandidateLists : AiRespond(JArr(products))
  \/ \E i \in 1..Len(OtherResponses) : AiRespond(OtherResponses[i])
  \/ \E failure \in {"Exception", "ResourceExhausted"} : AiFail(failure)
  \/ NextFile

Spec == Init /\ [][Next]_vars

\* ------------------------------------------------------------------------
\* Properties
\* ------------------------------------------------------------------------

\* the fields that list several options
MultiOptionFields ==
  {"MOUNTING HOLE", "VOLTAGE", "SEALING", "LED COLOR", "TYPE OF ILLUMINATION",
   "BEZEL STYLE", "TERMINALS", "BEZEL FINISH"}

\* extract_from_buffer has returned a record
Returned == DOMAIN python_result # {}

\* the record of field values that extract_from_buffer returned: the specs
\* in app.py, the result in the Extractor page
FieldRecord ==
  IF ~Returned THEN <<>>
  ELSE IF script = "app" THEN python_result["specs"]
  ELSE python_result

\* the field values are those of the heuristic extractors: the Extractor
\* page has not overwritten any with a value of the AI
Heuristic == script = "app" \/ ai_products = <<>>

IsBraced(v) == Len(v) >= 2 /\ v[1] = "{" /\ v[Len(v)] = "}"

\* the segments of a {...} string
Segments(v) == Split(SubSeq(v, 2, Len(v) - 1), "|")

\* the value of a segment: the text after the code and ':' when there is one
ValuePart(seg) ==
  IF \E i \in 1..Len(seg) : seg[i] = ":"
  THEN Strip(SubSeq(seg, (CHOOSE i \in 1..Len(seg) :
                            seg[i] = ":" /\ \A j \in 1..(i - 1) : seg[j] # ":") + 1,
                    Len(seg)))
  ELSE Strip(seg)

DistinctValues(v) ==
  \A i, j \in 1..Len(Segments(v)) :
    i < j => Lower(ValuePart(Segments(v)[i])) # Lower(ValuePart(Segments(v)[j]))

\* C1: in every record the heuristic extractors return, no {...} string of a
\* multi-option field holds two segments whose values are equal when letter
\* case is ignored
C1_DistinctValues ==
  Heuristic =>
    \A f \in MultiOptionFields \cap DOMAIN FieldRecord :
      IsBraced(FieldRecord[f]) => DistinctValues(FieldRecord[f])

\* the product type detect_product_type gives the uploaded file, the
\* default when the file cannot be read
ActiveType ==
  IF uploaded_file.pdf.readable /\ SplitWs(Lower(uploaded_file.name)) # <<>>
  THEN detect_product_type(AllText(uploaded_file.pdf), uploaded_file.name)
  ELSE <<"l","e","d","_","i","n","d","i","c","a","t","o","r">>

\* the field names of the schema in force: the one schema of
\* extract_data_deterministic.py, or the columns of the product type
ActiveSchema ==
  IF script = "app" THEN {"SERIES"} \cup MultiOptionFields
  ELSE CASE ActiveType = <<"p","a","d","d","l","e","_","j","o","y","s","t","i","c","k">> -> Range(PRODUCT_TYPES.paddle_joystick)
         [] ActiveType = <<"t","h","u","m","b","s","t","i","c","k","_","j","o","y","s","t","i","c","k">> -> Range(PRODUCT_TYPES.thumbstick_joystick)
         [] ActiveType = <<"f","i","n","g","e","r","t","i","p","_","j","o","y","s","t","i","c","k">> -> Range(PRODUCT_TYPES.fingertip_joystick)
         [] ActiveType = <<"t","e","r","m","i","n","a","l","_","b","l","o","c","k">> -> Range(PRODUCT_TYPES.terminal_block)
         [] OTHER -> Range(PRODUCT_TYPES.led_indicator)

\* C2: every record the entry points return, for a PDF that cannot be opened
\* too, holds every field name of the schema in force
C2_TotalFields == Returned => ActiveSchema \subseteq DOMAIN FieldRecord

\* the series app.py's extract_from_buffer derived from the filename
Series == FieldRecord["SERIES"]

\* what the strict validator promises of a code of the series
StrictlyValid(code, series) ==
  /\ StartsWith(code, series \o <<"-">>)
  /\ Len(code) >= 8 /\ Len(code) <= 25
  /\ \E i \in (Len(series) + 2)..Len(code) : code[i] \in Digits
  /\ \A i \in 1..Len(code) : code[i] \notin Whitespace
  /\ \A i \in 1..Len(code) : code[i] \in Digits \cup Range(AllUpper) \cup Range(AllLower) \cup {"-"}
  /\ \A w \in Range(garbage_words) : ~Contains(w, code)

\* C3: every code extract_model_codes returns starts with the series and a
\* hyphen, is 8 to 25 characters long, has a digit after the prefix, has no
\* whitespace, only letters, digits and hyphens, and no denylisted word
C3_StrictCodes ==
  script = "app" /\ Returned =>
    \A i \in 1..Len(python_result["model_codes"]) :
      StrictlyValid(python_result["model_codes"][i], Series)

\* a text that names HS1T-V44ZM-G and HS1T-CIRCUIT-1 gave the former only
C3_Witness ==
  /\ script = "app" /\ Returned
  /\ Contains(<<"H","S","1","T","-","C","I","R","C","U","I","T","-","1">>, AllText(uploaded_file.pdf))
  /\ python_result["model_codes"] = <<<<"H","S","1","T","-","V","4","4","Z","M","-","G">>>>

\* C4: no two products the merge engine emits have MODEL_CODE values that
\* are equal when letter case is ignored
C4_DistinctCodes ==
  \A i, j \in 1..Len(merged) :
    i < j => Lower(merged[i]["MODEL_CODE"]) # Lower(merged[j]["MODEL_CODE"])

\* two candidates whose codes differ in letter case only gave one product,
\* with the code of the first
C4_Witness ==
  /\ Len(ai_products) = 2
  /\ ai_products[1]["MODEL_CODE"] # ai_products[2]["MODEL_CODE"]
  /\ Lower(ai_products[1]["MODEL_CODE"]) = Lower(ai_products[2]["MODEL_CODE"])
  /\ Len(merged) = 1
  /\ merged[1]["MODEL_CODE"] = ai_products[1]["MODEL_CODE"]

\* the series name merge_product_data hands to the merge engine
SeriesName == GetOr(FieldRecord, "SERIES", <<>>)

\* validation rejects every candidate of the AI
NoneAccepted ==
  \A i \in 1..Len(ai_products) :
    \/ ai_products[i]["MODEL_CODE"] \in {PyNone, <<>>}
    \/ ~validate_model_code(ai_products[i]["MODEL_CODE"], SeriesName)

\* value is not None, "", "null" or "N/A"
NonEmpty(value) == value \notin {PyNone, <<>>, NullStr, NA}

\* C5: when no candidate survives validation the merge engine emits one
\* product, built from the heuristic record alone, whose MODEL_CODE is the
\* heuristic SERIES, or "Unknown" without one, and never None or empty
C5_Fallback ==
  script = "app" /\ pc = "done" /\ NoneAccepted =>
    /\ Len(merged) = 1
    /\ merged[1]["MODEL_CODE"] =
         (IF "SERIES" \in DOMAIN FieldRecord THEN FieldRecord["SERIES"] ELSE <<"U","n","k","n","o","w","n">>)
    /\ merged[1]["MODEL_CODE"] \notin {PyNone, <<>>}
    /\ \A col \in Range(target_columns) \ {"MODEL_CODE"} :
         merged[1][col] = (IF NonEmpty(Get(FieldRecord, col)) THEN FieldRecord[col]
                           ELSE PyNone)

\* two candidates were listed, both were rejected, and the one product
\* carries the series as its MODEL_CODE
C5_Witness ==
  /\ script = "app" /\ pc = "done"
  /\ Len(ai_products) = 2
  /\ NoneAccepted
  /\ \E i \in 1..2 : NonEmpty(ai_products[i]["MODEL_CODE"])
  /\ merged[1]["MODEL_CODE"] = <<"H","S","1","T">>

\* C6: every multi-option field the heuristic extractors return is "N/A" or
\* None, or a string in braces
C6_Braced ==
  Heuristic =>
    \A f \in MultiOptionFields \cap DOMAIN FieldRecord :
      FieldRecord[f] \in {NA, PyNone} \/ IsBraced(FieldRecord[f])

\* the candidate a product was built from: the first with its MODEL_CODE
SourceOf(product) ==
  CHOOSE i \in 1..Len(ai_products) :
    /\ ai_products[i]["MODEL_CODE"] = product["MODEL_CODE"]
    /\ \A j \in 1..(i - 1) : ai_products[j]["MODEL_CODE"] # product["MODEL_CODE"]

\* the product is the one built from an accepted candidate
FromCandidate(product) ==
  \E i \in 1..Len(ai_products) : ai_products[i]["MODEL_CODE"] = product["MODEL_CODE"]

\* the value the merge is to give a column of the product of a candidate
MergedValue(col, candidate) ==
  IF col = "MODEL_CODE" THEN candidate["MODEL_CODE"]
  ELSE IF col = "SERIES"
  THEN (IF Get(FieldRecord, "SERIES") \notin {PyNone, <<>>} THEN FieldRecord["SERIES"]
        ELSE IF candidate["SERIES"] \notin {PyNone, <<>>} THEN candidate["SERIES"]
        ELSE SeriesName)
  ELSE IF NonEmpty(Get(FieldRecord, col)) THEN FieldRecord[col]
  ELSE IF NonEmpty(candidate[col]) THEN candidate[col]
  ELSE PyNone

\* C7: the product of an accepted candidate has the candidate's MODEL_CODE,
\* the heuristic SERIES, else the candidate's, else the series name, and in
\* every other column the heuristic value when it is not empty, else the
\* candidate's when it is not empty, else None
C7_MergedFields ==
  script = "app" /\ pc = "done" =>
    \A k \in 1..Len(merged) :
      FromCandidate(merged[k]) =>
        \A col \in Range(target_columns) :
          merged[k][col] = MergedValue(col, ai_products[SourceOf(merged[k])])

\* a product kept a heuristic value against a different one of the candidate
\* and took from the candidate a value the heuristic record lacks
C7_Witness ==
  /\ script = "app" /\ pc = "done"
  /\ \E k \in 1..Len(merged) :
       /\ FromCandidate(merged[k])
       /\ \E col \in MultiOptionFields :
            /\ NonEmpty(Get(FieldRecord, col))
            /\ NonEmpty(ai_products[SourceOf(merged[k])][col])
            /\ ai_products[SourceOf(merged[k])][col] # FieldRecord[col]
            /\ merged[k][col] = FieldRecord[col]
       /\ \E col \in MultiOptionFields :
            /\ ~NonEmpty(Get(FieldRecord, col))
            /\ NonEmpty(ai_products[SourceOf(merged[k])][col])
            /\ merged[k][col] = ai_products[SourceOf(merged[k])][col]

\* the non-part words the specification denylists
Denylisted ==
  {<<"C","I","R","C","U","I","T">>, <<"E","X","A","M","P","L","E">>, <<"N","O","T","E">>, <<"F","I","G","U","R","E">>, <<"T","A","B","L","E">>, <<"P","A","G","E">>,
   <<"S","P","E","C","I","F","I","C","A","T","I","O","N">>, <<"D","I","M","E","N","S","I","O","N">>, <<"M","O","U","N","T","I","N","G">>, <<"T","E","R","M","I","N","A","L">>, <<"V","O","L","T","A","G","E">>,
   <<"S","E","A","L","I","N","G">>}

\* C8: every MODEL_CODE the merge engine accepts from a candidate is 5 to 30
\* characters long, has no whitespace and no denylisted word, and has a
\* letter and a digit
C8_AcceptedCodes ==
  script = "app" /\ pc = "done" =>
    \A k \in 1..Len(merged) :
      FromCandidate(merged[k]) =>
        /\ Len(merged[k]["MODEL_CODE"]) >= 5 /\ Len(merged[k]["MODEL_CODE"]) <= 30
        /\ \A i \in 1..Len(merged[k]["MODEL_CODE"]) :
             merged[k]["MODEL_CODE"][i] \notin Whitespace
        /\ \A w \in Denylisted : ~Contains(w, Upper(merged[k]["MODEL_CODE"]))
        /\ \E i \in 1..Len(merged[k]["MODEL_CODE"]) :
             merged[k]["MODEL_CODE"][i] \in Range(AllUpper) \cup Range(AllLower)
        /\ \E i \in 1..Len(merged[k]["MODEL_CODE"]) :
             merged[k]["MODEL_CODE"][i] \in Digits

\* C9: no response of the AI, whatever its shape, makes normalize_ai_output
\* or the merge raise
C9_NoRaiseOnResponse == ~(pc = "raised" /\ attempt > 0)

\* C10: extract_from_buffer raises nothing, whatever the file, and the
\* record it returns carries the SERIES of the filename
C10_SeriesAlways ==
  /\ ~(pc = "raised" /\ attempt = 0 /\ ~Returned)
  /\ Returned => "SERIES" \in DOMAIN FieldRecord

\* the field is one get_low_confidence_fields lists for validation
Flagged(validation, field) ==
  /\ field \in DOMAIN validation
  /\ \/ validation[field].confidence = "low"
     \/ validation[field].source = "None"

\* C20: when the extractor page ends after the AI was asked, a field has a
\* new value only if it was flagged (low confidence, or no source) and the
\* new value is the value of the first AI product, which is not None, "",
\* "N/A" or "null"; such a field's confidence becomes medium and its source
\* 'AI Enhanced'; a field of medium or high confidence keeps its value and
\* its validation entry, and no field is added or taken away
C20_OnlyLowOverwritten ==
  [][(script = "extractor" /\ pc = "ai_call" /\ pc' = "done") =>
       /\ DOMAIN python_result' = DOMAIN python_result
       /\ DOMAIN python_result'["_validation"] = DOMAIN python_result["_validation"]
       /\ \A field \in DOMAIN python_result \ InternalKeys :
            /\ python_result'[field] # python_result[field] =>
                 /\ Flagged(python_result["_validation"], field)
                 /\ ai_products' # <<>>
                 /\ python_result'[field] = Get(ai_products'[1], field)
                 /\ python_result'[field] \notin {PyNone, <<>>, NA, NullStr}
                 /\ python_result'["_validation"][field].confidence = "medium"
                 /\ python_result'["_validation"][field].source = "AI Enhanced"
            /\ python_result'[field] = python_result[field] =>
                 python_result'["_validation"][field] = python_result["_validation"][field]
            /\ python_result["_validation"][field].confidence \in {"medium", "high"} =>
                 python_result'[field] = python_result[field]]_vars

\* the extractor page has ended with a VOLTAGE the AI gave, a SEALING left
\* as not found although the AI answered "N/A", and a SERIES of high
\* confidence that is the one of the filename although the AI gave another
C20_Witness ==
  /\ script = "extractor"
  /\ pc = "done"
  /\ attempt > 0
  /\ ai_products # <<>>
  /\ ai_products[1]["SERIES"] = <<"H","S","1","T">>
  /\ python_result["SERIES"] = <<"L","A","M","P">>
  /\ python_result["_validation"]["SERIES"].confidence = "high"
  /\ python_result["VOLTAGE"] = <<"2","4","V">>
  /\ python_result["_validation"]["VOLTAGE"].confidence = "medium"
  /\ python_result["_validation"]["VOLTAGE"].source = "AI Enhanced"
  /\ python_result["SEALING"] = NA
  /\ python_result["_validation"]["SEALING"].confidence = "low"

\* C21: once extract_from_buffer has returned, no later step on the document
\* changes the validation map: the entries python_result carries when the
\* AI is asked are the entries it carries when the script ends
C21_ValidationReadOnly ==
  [][(pc = "ai_call" /\ pc' = "done") =>
       GetOr(python_result', "_validation", <<>>) = GetOr(python_result, "_validation", <<>>)]_vars

\* C24: the record the extractor page has for a document without AI
\* enhancement is the record of every run on that filename, text and
\* tables, the order of the options inside each {...} value included
C24_SameRecordEveryRun ==
  (script = "extractor" /\ pc = "done" /\ ~use_hybrid) =>
     \A order \in Orders(uploaded_file) :
        extract_from_buffer(uploaded_file.pdf, uploaded_file.name, order).value = python_result

\* the candidates the claim keeps: those with a valid code that no earlier
\* candidate has, letter case ignored, in the order of the list
KeptCandidates ==
  SelectSeq([i \in 1..Len(ai_products) |-> i],
            LAMBDA i :
              /\ ai_products[i]["MODEL_CODE"] \notin {PyNone, <<>>}
              /\ validate_model_code(ai_products[i]["MODEL_CODE"], SeriesName)
              /\ \A j \in 1..(i - 1) :
                   Lower(ai_products[j]["MODEL_CODE"]) # Lower(ai_products[i]["MODEL_CODE"]))

\* C25: for n candidates the merge engine returns at least 1 and at most
\* max(1, n) products, each with exactly the ten target columns; the
\* accepted products are in the order of their candidates, the first
\* candidate of each code, letter case ignored, being the one kept
C25_CountAndOrder ==
  (script = "app" /\ pc = "done") =>
     /\ Len(merged) >= 1
     /\ Len(merged) <= (IF Len(ai_products) > 1 THEN Len(ai_products) ELSE 1)
     /\ \A k \in 1..Len(merged) :
          /\ DOMAIN merged[k] = Range(target_columns)
          /\ Cardinality(DOMAIN merged[k]) = 10
     /\ KeptCandidates # <<>> =>
          /\ Len(merged) = Len(KeptCandidates)
          /\ \A k \in 1..Len(merged) :
               merged[k]["MODEL_CODE"] = ai_products[KeptCandidates[k]]["MODEL_CODE"]

\* two candidates with different codes were accepted, and the products are
\* in the order of the candidates
C25_Witness ==
  /\ script = "app" /\ pc = "done"
  /\ Len(ai_products) = 2
  /\ Len(merged) = 2
  /\ Lower(ai_products[1]["MODEL_CODE"]) # Lower(ai_products[2]["MODEL_CODE"])
  /\ merged[1]["MODEL_CODE"] = ai_products[1]["MODEL_CODE"]
  /\ merged[2]["MODEL_CODE"] = ai_products[2]["MODEL_CODE"]

\* other lists of codes the heuristic extractor could have discovered
OtherModelCodes ==
  {<<>>, <<<<"H","S","1","T","-","A","2","2">>>>, <<<<"H","S","1","T","-","A","2","2">>, <<"H","S","1","T","-","V","4","4","Z","M","-","G">>>>, <<<<"A","P","2","2","-","1">>>>}

\* C26: the products of merge_product_data are the same whatever the
\* 'model_codes' of the heuristic extractor are: no discovered code makes a
\* product, and with no valid candidate of the AI the one fallback product
\* is emitted even when codes were discovered
C26_ModelCodesIgnored ==
  (script = "app" /\ pc = "done") =>
     /\ \A codes \in OtherModelCodes :
          merge_product_data(ai_products, [python_result EXCEPT !["model_codes"] = codes]) = merged
     /\ NoneAccepted => Len(merged) = 1
     /\ \A k \in 1..Len(merged) :
          \/ \E i \in 1..Len(ai_products) :
               merged[k]["MODEL_CODE"] = ai_products[i]["MODEL_CODE"]
          \/ merged[k]["MODEL_CODE"] = GetOr(FieldRecord, "SERIES", Unknown)

\* a code was discovered in the document, the AI listed one candidate, which
\* was rejected, and the one product has the series as its MODEL_CODE
C26_Witness ==
  /\ script = "app" /\ pc = "done"
  /\ python_result["model_codes"] = <<<<"H","S","1","T","-","V","4","4","Z","M","-","G">>>>
  /\ Len(ai_products) = 1
  /\ NoneAccepted
  /\ Len(merged) = 1
  /\ merged[1]["MODEL_CODE"] = FieldRecord["SERIES"]
  /\ merged[1]["MODEL_CODE"] # python_result["model_codes"][1]

\* one attempt of extract_with_ai, answered or failed
AiAttempt ==
  \/ \E products \in CandidateLists : AiRespond(JArr(products))
  \/ \E i \in 1..Len(OtherResponses) : AiRespond(OtherResponses[i])
  \/ \E failure \in {"Exception", "ResourceExhausted"} : AiFail(failure)

\* the scripts when an API call that was made always answers or fails
Live == Spec /\ WF_vars(AiAttempt)

\* C27: extract_with_ai ends after at most max_retries API calls: each
\* attempt is one call, a call that answers ends it at once, a call that
\* fails raises nothing, and after max_retries failed calls it ends with
\* the empty list
C27_BoundedRetries ==
  /\ [](attempt <= max_retries /\ (pc = "ai_call" => attempt < max_retries))
  /\ [][pc = "ai_call" =>
          /\ attempt' = attempt + 1
          /\ pc' = "ai_call" => ai_raw' = <<>>]_vars
  /\ [][(\E failure \in Failures(provider) : AiFail(failure)) =>
          /\ pc' # "raised"
          /\ pc' = "ai_call" <=> attempt' < max_retries
          /\ ai_raw' = <<>>]_vars
  /\ (pc = "ai_call") ~> (pc # "ai_call")

\* the third call failed after two failed calls, and the script ended with
\* no product of the AI
C27_Witness ==
  /\ pc = "done"
  /\ attempt = max_retries
  /\ Len(sleeps) >= max_retries - 1
  /\ ai_raw = <<>>

\* C28: extract_with_ai sleeps only between attempts: while it waits for
\* the next call it has slept once for each failed call, and when it has
\* ended it has slept once less than it has made calls, so never after the
\* last of max_retries failed calls
C28_SleepBetweenAttempts ==
  /\ pc = "ai_call" => Len(sleeps) = attempt
  /\ (pc # "ai_call" /\ attempt > 0) => Len(sleeps) = attempt - 1

\* C29: the overall confidence score and level of a document are those
\* computed from the validation map extract_from_buffer returned: the AI
\* enhancement, whatever it overwrites, leaves them as they were, while
\* every entry it updates goes from low to medium
C29_OverallKept ==
  [][(script = "extractor" /\ pc = "ai_call" /\ pc' = "done") =>
       /\ python_result'["_confidence_score"] = python_result["_confidence_score"]
       /\ python_result'["_confidence_level"] = python_result["_confidence_level"]
       /\ <<python_result'["_confidence_score"], python_result'["_confidence_level"]>>
            = calculate_overall_confidence(python_result["_validation"])
       /\ \A field \in DOMAIN python_result["_validation"] :
            python_result'["_validation"][field] # python_result["_validation"][field] =>
               /\ python_result["_validation"][field].confidence = "low"
               /\ python_result'["_validation"][field].confidence = "medium"]_vars

\* the extractor page has ended with a field the AI overwrote, and the
\* overall score is no longer the one of the validation map
C29_Witness ==
  /\ script = "extractor"
  /\ pc = "done"
  /\ "_validation" \in DOMAIN python_result
  /\ \E field \in DOMAIN python_result["_validation"] :
       python_result["_validation"][field].source = "AI Enhanced"
  /\ python_result["_confidence_score"]
       < calculate_overall_confidence(python_result["_validation"])[1]

\* C30: a document whose extraction failed (a record with ERROR and an
\* empty validation map) has no low-confidence fields, so that even in
\* hybrid mode no page is rendered, no API call is made and the record
\* stays the one extract_from_buffer returned; and when a document is
\* enhanced, every value that changes becomes the value the first AI
\* product has for that field
C30_ErrorNeverEnhanced ==
  /\ []((script = "extractor" /\ pc \in {"ai_call", "done"} /\ "ERROR" \in DOMAIN python_result) =>
          /\ python_result["_validation"] = <<>>
          /\ get_low_confidence_fields(python_result) = <<>>
          /\ low_conf_fields = <<>>
          /\ pc = "done"
          /\ images = 0
          /\ attempt = 0
          /\ ai_raw = <<>>
          /\ ai_products = <<>>
          /\ \E order \in Orders(uploaded_file) :
               python_result = extract_from_buffer(uploaded_file.pdf, uploaded_file.name, order).value)
  /\ [][(script = "extractor" /\ pc = "ai_call" /\ pc' = "done") =>
          /\ DOMAIN python_result' = DOMAIN python_result
          /\ \A k \in DOMAIN python_result \ {"_validation"} :
               python_result'[k] # python_result[k] =>
                  /\ ai_products' # <<>>
                  /\ python_result'[k] = Get(ai_products'[1], k)]_vars

\* the extractor page has ended after an answer of two products that
\* differ in a field the AI overwrote: the record has the first one's value
C30_Witness ==
  /\ script = "extractor"
  /\ pc = "done"
  /\ Len(ai_products) >= 2
  /\ \E k \in 1..Len(low_conf_fields) :
       Let(low_conf_fields[k].field, LAMBDA field :
          /\ python_result["_validation"][field].source = "AI Enhanced"
          /\ Truthy(Get(ai_products[2], field))
          /\ ~IsSentinel(Get(ai_products[2], field))
          /\ Get(ai_products[2], field) # Get(ai_products[1], field)
          /\ python_result[field] = Get(ai_products[1], field))

\* the extractor page has ended in hybrid mode for a document whose
\* extraction failed
C30_ErrorInHybridMode ==
  /\ script = "extractor"
  /\ pc = "done"
  /\ use_hybrid
  /\ "ERROR" \in DOMAIN python_result

\* ------------------------------------------------------------------------
\* Functions called on their own
\* ------------------------------------------------------------------------

\* the variables of the scripts
program ==
  <<script, uploaded_file, use_hybrid, provider, pc, python_result,
    low_conf_fields, images, attempt, sleeps, ai_raw, ai_products,
    merged, file_results, raised>>

\* the most tokens a string argument is made of
MaxTokens == 3

\* the strings made of at most n of the tokens
Concats(tokens, n) ==
  {FlatCat([i \in 1..Len(f) |-> tokens[f[i]]]) :
     f \in UNION {[1..k -> 1..Len(tokens)] : k \in 0..n}}

\* a call of fn about to be made
Called(fn, args) == [fn |-> fn, args |-> args, returned |-> FALSE, result |-> <<>>]

\* the call returns result
Returns(fn, result) ==
  /\ call.fn = fn
  /\ ~call.returned
  /\ call' = [call EXCEPT !.returned = TRUE, !.result = result]
  /\ UNCHANGED program

\* what voltage strings are made of
VoltageTokens ==
  <<<<"2","4">>, <<"1",".","5">>, <<"V">>, <<"D","C">>, <<"A","C">>, <<"V","D","C">>, <<"v","a","c">>, <<" ">>, <<" "," ">>, <<"/">>, <<"1","2">>>>

VoltageStrings == Concats(VoltageTokens, MaxTokens)

Call_standardize_voltage ==
  Returns("standardize_voltage", standardize_voltage(call.args[1]))

\* C11: standardize_voltage applied to its own result returns that result
C11_VoltageIdempotent ==
  (call.fn = "standardize_voltage" /\ call.returned) =>
     standardize_voltage(call.result) = call.result

\* a call that standardize_voltage changed: "24VDC  " gives "24V DC"
C11_Witness ==
  /\ call.fn = "standardize_voltage"
  /\ call.returned
  /\ call.args[1] = <<"2","4","V","D","C"," "," ">>
  /\ call.result = <<"2","4","V"," ","D","C">>

\* what dimension strings are made of
DimensionTokens ==
  <<<<"2","2">>, <<"m","m">>, <<"M","M">>, <<"m">>, <<" ">>, <<"oslash">>, <<"Oslash">>, <<"x">>, <<".","5">>>>

DimensionStrings == Concats(DimensionTokens, MaxTokens)

Call_clean_dimension ==
  Returns("clean_dimension", clean_dimension_det(call.args[1]))

\* C12: clean_dimension applied to its own result returns that result
C12_DimensionIdempotent ==
  (call.fn = "clean_dimension" /\ call.returned) =>
     clean_dimension_det(call.result) = call.result

\* the most items of a {...} string
MaxItems == 2

\* the items of the {...} strings given to clean_and_dedupe_values
ItemTokens ==
  <<<<"A",":","2","2","m","m","m","m">>, <<"2","2","m","m">>, <<"B",":","2","2">>, <<"2","2"," ","M","M">>, <<":">>, <<>>, <<"A",":">>, <<"2","4","V","D","C">>,
    <<"A",":","2","4","V"," ","D","C">>, <<"b",":"," ","2","4"," ","v","d","c">>, <<" ","r","e","d">>, <<"R","e","d">>, <<"R",":","r","e","d">>, <<"a",":","b",":","c">>>>

value_types == {"generic", "voltage", "dimension"}

\* the strings given to clean_and_dedupe_values: {...} strings of at most
\* MaxItems items, and strings that are not of that form
ValueStrings ==
  {Braced([i \in 1..Len(f) |-> ItemTokens[f[i]]]) :
     f \in UNION {[1..k -> 1..Len(ItemTokens)] : k \in 0..MaxItems}}
  \cup {<<>>, NA, <<"2","4","V","D","C">>, <<"{","R","e","d">>, <<"x","{","A",":","2","2","m","m","m","m","|","2","2","m","m","}","y">>}

Call_clean_and_dedupe_values ==
  Returns("clean_and_dedupe_values",
          clean_and_dedupe_values(call.args[1], call.args[2]))

\* C13: clean_and_dedupe_values applied to its own result, with the same
\* value_type, returns that result
C13_DedupeFixedPoint ==
  (call.fn = "clean_and_dedupe_values" /\ call.returned) =>
     clean_and_dedupe_values(call.result, call.args[2]) = call.result

\* what the text given to extract_model_codes is made of
CodeTokens ==
  <<<<"H","S","1","T","-","V","4","4","Z","M","-","G"," ">>, <<"h","s","1","t","-","b","1","-","b","b","b"," ">>, <<"H","S","1","T","-","B","1","-","a","1"," ">>, <<"H","S","1","T","-","b","1","-","A","1"," ">>,
    <<"H","S","1","T","-","C","I","R","C","U","I","T","-","1"," ">>, <<"h","s","1","t","-","a","2","2","\n">>>>

\* the cells of the table given to extract_model_codes
CodeCells == <<<<"H","S","1","T","-","A","2","2">>, <<" ","h","s","1","t","-","b","1","-","b","b","b">>, <<"s","e","e"," ","H","S","1","T","-","0","X","-","9",","," ","h","s","1","t","-","0","x","-","9">>>>

\* the tables given to extract_model_codes: none, or one table of a header
\* row and a row of MaxItems cells
CodeTables ==
  {<<>>} \cup
  {<< <<<<<<"M","o","d","e","l">>, <<"N","o","t","e">>>>, [i \in 1..MaxItems |-> CodeCells[f[i]]]>> >> :
     f \in [1..MaxItems -> 1..Len(CodeCells)]}

Call_extract_model_codes ==
  Returns("extract_model_codes",
          extract_model_codes(call.args[1], call.args[2], call.args[3]))

\* C14: the list extract_model_codes returns has no two codes that are equal
\* when case is ignored, and each code is less than the one after it
C14_SortedDistinct ==
  (call.fn = "extract_model_codes" /\ call.returned) =>
     /\ \A i, j \in 1..Len(call.result) :
          i # j => Lower(call.result[i]) # Lower(call.result[j])
     /\ \A i \in 1..(Len(call.result) - 1) :
          StrLess(call.result[i], call.result[i + 1])

\* codes found in an order that is not the sorted one, two of them equal
\* but for case, and two more in table cells
C14_Witness ==
  /\ call.fn = "extract_model_codes"
  /\ call.returned
  /\ call.args[1] = <<"H","S","1","T","-","V","4","4","Z","M","-","G"," ","H","S","1","T","-","B","1","-","a","1"," ","H","S","1","T","-","b","1","-","A","1"," ">>
  /\ call.args[2] = << <<<<<<"M","o","d","e","l">>, <<"N","o","t","e">>>>, <<<<"H","S","1","T","-","A","2","2">>, <<" ","h","s","1","t","-","b","1","-","b","b","b">>>>>> >>
  /\ call.result = <<<<"H","S","1","T","-","A","2","2">>, <<"H","S","1","T","-","B","1","-","A","1">>, <<"H","S","1","T","-","B","1","-","B","B","B">>, <<"H","S","1","T","-","V","4","4","Z","M","-","G">>>>

\* what the text given to extract_sealing and extract_voltage is made of
RatingTokens == <<<<"I","P","6","5"," ">>, <<"i","p"," ","6","7"," ">>, <<"I","P","6","5","F"," ">>, <<"2","4","V"," ","D","C"," ">>, <<"1","2","V","A","C"," ">>>>

\* the tables given to them: none, or one table of a header row and a row
\* of a code and a value
RatingTables ==
  {<<>>} \cup
  {<< <<<<<<"C","o","d","e">>, <<"R","a","t","i","n","g">>>>, row>> >> :
     row \in {<<<<"A">>, <<"I","P","6","5">>>>, <<<<"B">>, <<"2","4","V"," ","D","C">>>>, <<<<"C">>, <<"I","P","6","7"," ","1","2"," ","V","A","C">>>>}}

RatingCalls ==
  {<<text, tables>> : text \in Concats(RatingTokens, MaxTokens), tables \in RatingTables}

Call_extract_sealing ==
  Returns("extract_sealing", extract_sealing(call.args[1], call.args[2]))

Call_extract_voltage ==
  Returns("extract_voltage", extract_voltage(call.args[1], call.args[2]))

\* the code-to-value mappings and the value lists given to format_with_codes
CodeMappings ==
  {<<>>, <<<<<<"R">>, <<"R","e","d">>>>>>, <<<<<<"G">>, <<"G","r","e","e","n">>>>, <<<<"R">>, <<"R","e","d">>>>>>,
   <<<<<<"R">>, <<"R","e","d">>>>, <<<<"R","D">>, <<"R","e","d">>>>>>}

ValueLists ==
  {[i \in 1..Len(f) |-> <<<<"R","e","d">>, <<"r","e","d">>, <<"G","r","e","e","n">>, <<"B","l","u","e">>>>[f[i]]] :
     f \in UNION {[1..k -> 1..4] : k \in 0..MaxItems}}

Call_format_with_codes ==
  Returns("format_with_codes", format_with_codes(call.args[1], call.args[2]))

\* the values of the segments of a rendered string, in lower case
RenderedValues(v) ==
  IF IsBraced(v)
  THEN {Lower(ValuePart(Segments(v)[i])) : i \in 1..Len(Segments(v))}
  ELSE {}

\* the ratings and the voltages the extractors discover in free text
RatingsInText(text) ==
  SealingText(exhaustive_text_search(text, SealingPatterns), 1, <<>>)

VoltagesInText(text) ==
  VoltageText(exhaustive_text_search(text,
                VoltagePatterns({"-", "acirc", "euro", "ldquo"})), 1, <<>>)

\* C15: a rendered string holds the coded values first, in the order of the
\* mapping, and after them the values without a code; every discovered value
\* is the value of one of its segments, and it is "N/A" exactly when nothing
\* was discovered
C15_NothingLeftOut ==
  /\ (call.fn = "format_with_codes" /\ call.returned) =>
       /\ (call.result = NA) <=> (call.args[1] = <<>> /\ call.args[2] = <<>>)
       /\ \A i \in 1..Len(call.args[1]) :
            /\ call.result # NA
            /\ Segments(call.result)[i] = CodeValue(call.args[1][i][1], call.args[1][i][2])
       /\ \A i \in 1..Len(call.args[2]) :
            Lower(call.args[2][i]) \in RenderedValues(call.result)
  /\ (call.fn = "extract_sealing" /\ call.returned) =>
       \A i \in 1..Len(RatingsInText(call.args[1])) :
          Lower(RatingsInText(call.args[1])[i]) \in RenderedValues(call.result)
  /\ (call.fn = "extract_voltage" /\ call.returned) =>
       \A i \in 1..Len(VoltagesInText(call.args[1])) :
          Lower(VoltagesInText(call.args[1])[i]) \in RenderedValues(call.result)

\* the values of the fields given to analyze_extraction_confidence: not
\* found, empty, None, plain, coded with two options and with one, a list
\* without codes of two options and of one, and a ':' and a '|' without a '{'
FieldValues ==
  {NA, <<>>, PyNone, <<"A","P","2","2">>, <<"{","A",":","2","4","V"," ","D","C","|","B",":","1","2","V"," ","A","C","}">>, <<"{","A",":","2","4","V"," ","D","C","}">>,
   <<"{","R","e","d","|","G","r","e","e","n","}">>, <<"{","R","e","d","}">>, <<"a",":","b","|","c">>}

\* the results given to it: a SERIES, a VOLTAGE and the internal key
ExtractionResults ==
  {("SERIES" :> s) @@ ("VOLTAGE" :> v) @@ ("_PRODUCT_TYPE" :> <<"L","E","D"," ","I","n","d","i","c","a","t","o","r">>) :
     s \in FieldValues, v \in FieldValues}

\* the page texts given to it: none, or two pages
PageTexts == {<<>>, <<<<"I","P","6","5">>, <<"r","a","t","e","d"," ","2","4","v"," ","d","c">>>>}

Call_analyze_extraction_confidence ==
  Returns("analyze_extraction_confidence",
          analyze_extraction_confidence(call.args[1], call.args[2], call.args[3]))

\* C16: analyze_extraction_confidence gives confidence low, with the reason
\* that the value was not found, to every field whose value is "N/A", the
\* empty string or None
C16_EmptyIsLow ==
  (call.fn = "analyze_extraction_confidence" /\ call.returned) =>
     \A field \in DOMAIN call.args[1] \ InternalKeys :
        call.args[1][field] \in {NA, <<>>, PyNone} =>
           /\ call.result[field].confidence = "low"
           /\ call.result[field].reason = "Value not found in PDF"

\* C17: in every map analyze_extraction_confidence returns, the SERIES field
\* has confidence high, whatever its value is, "N/A" included
C17_SeriesIsHigh ==
  (call.fn = "analyze_extraction_confidence" /\ call.returned
     /\ "SERIES" \in DOMAIN call.args[1]) =>
     call.result["SERIES"].confidence = "high"

\* C18: a field other than SERIES whose value is not "N/A" is never low; it
\* is high exactly when its value holds a '{' and a ':' and has two or more
\* options separated by '|', and medium otherwise
C18_FormatDecides ==
  (call.fn = "analyze_extraction_confidence" /\ call.returned) =>
     \A field \in DOMAIN call.args[1] \ (InternalKeys \cup {"SERIES"}) :
        Let(call.args[1][field], LAMBDA value :
           value # NA =>
              /\ call.result[field].confidence # "low"
              /\ call.result[field].confidence = "high" <=>
                    /\ Contains(<<"{">>, value)
                    /\ Contains(<<":">>, value)
                    /\ Len(Split(value, "|")) >= 2
              /\ call.result[field].confidence \in {"high", "medium"})

\* a coded value of two options is high and found on the second page, next
\* to a SERIES that was not found
C18_Witness ==
  /\ call.fn = "analyze_extraction_confidence"
  /\ call.returned
  /\ call.args[1]["VOLTAGE"] = <<"{","A",":","2","4","V"," ","D","C","|","B",":","1","2","V"," ","A","C","}">>
  /\ call.args[1]["SERIES"] = NA
  /\ call.result["VOLTAGE"] =
       Meta("high", "green", "Found 2 options with code format", "Table/Ordering Info", 2)

\* the validation maps given to calculate_overall_confidence have up to
\* this many fields
MaxFields == 5

\* the entry analyze_extraction_confidence writes for each confidence
ConfidenceMetas ==
  [high |-> Meta("high", "green", "Extracted from filename", "Filename", 0),
   medium |-> Meta("medium", "yellow", "Basic value extracted", "Text", 0),
   low |-> Meta("low", "red", "Value not found in PDF", "None", 0)]

\* the validation maps given to it: the first fields of the LED indicator
\* schema, each with one of the three confidences
ValidationMaps ==
  UNION {[{PRODUCT_TYPES.led_indicator[i] : i \in 1..k} ->
            {ConfidenceMetas[c] : c \in DOMAIN ConfidenceMetas}] : k \in 0..MaxFields}

Call_calculate_overall_confidence ==
  Returns("calculate_overall_confidence", calculate_overall_confidence(call.args[1]))

\* the sum of the scores of the fields: high 3, medium 2, low 1
ScoreSum(validation) ==
  3 * Cardinality({f \in DOMAIN validation : validation[f].confidence = "high"})
  + 2 * Cardinality({f \in DOMAIN validation : validation[f].confidence = "medium"})
  + Cardinality({f \in DOMAIN validation : validation[f].confidence = "low"})

\* C19: calculate_overall_confidence returns mean / 3 * 100 cut to an
\* integer, where mean is the mean of the scores of the fields, with the
\* level high iff mean >= 2.5, medium iff 1.8 <= mean < 2.5 and low
\* otherwise; the percentage of a map that is not empty is in 33..100 and
\* an empty map gives (0, low)
C19_MeanOfScores ==
  (call.fn = "calculate_overall_confidence" /\ call.returned) =>
     Let(Cardinality(DOMAIN call.args[1]), LAMBDA count :
     Let(ScoreSum(call.args[1]), LAMBDA total :
        IF count = 0 THEN call.result = <<0, "low">>
        ELSE /\ 3 * count * call.result[1] <= 100 * total
             /\ 100 * total < 3 * count * (call.result[1] + 1)
             /\ call.result[2] = "high" <=> 2 * total >= 5 * count
             /\ call.result[2] = "medium" <=> (5 * total >= 9 * count /\ 2 * total < 5 * count)
             /\ call.result[2] = "low" <=> 5 * total < 9 * count
             /\ call.result[1] \in 33..100))

\* three fields, two high and one medium: the mean is 8/3, the percentage
\* 88.8 cut to 88
C19_Witness ==
  /\ call.fn = "calculate_overall_confidence"
  /\ call.returned
  /\ Cardinality(DOMAIN call.args[1]) = 3
  /\ ScoreSum(call.args[1]) = 8
  /\ call.result = <<88, "high">>

\* what the filenames given to detect_product_type are made of
NameTokens ==
  <<<<"b","h","n">>, <<"C","J">>, <<"x","s">>, <<"f","t","2","j">>, <<"H","S","1","T">>, <<"b","n","-","w">>, <<"_">>, <<" ">>>>

\* the texts given to it
TypeTexts ==
  {<<>>, <<"B","H","N"," ","S","e","r","i","e","s"," ","p","a","d","d","l","e">>, <<"t","h","e"," ","c","j"," ","s","e","r","i","e","s">>, <<"X","S"," ","s","e","r","i","e","s">>,
   <<"I","n","t","e","r","l","o","c","k"," ","S","w","i","t","c","h"," ","w","i","t","h"," ","h","a","n","d"," ","g","r","i","p">>, <<"p","a","d","d","l","e"," ","c","o","n","t","r","o","l","l","e","r",","," ","p","i","l","o","t"," ","l","i","g","h","t">>,
   <<"P","r","o","p","o","r","t","i","o","n","a","l"," ","F","i","n","g","e","r","t","i","p"," ","a","n","d"," ","f","i","n","g","e","r","t","i","p"," ","j","o","y","s","t","i","c","k">>, <<"p","i","l","o","t"," ","l","i","g","h","t">>,
   <<"c","o","n","t","r","o","l","l","e","r"," ","w","i","t","h"," ","o","p","e","r","a","t","o","r"," ","i","n","t","e","r","f","a","c","e">>}

Call_detect_product_type ==
  Returns("detect_product_type", detect_product_type(call.args[1], call.args[2]))

\* the product types
TypeNames ==
  [led |-> <<"l","e","d","_","i","n","d","i","c","a","t","o","r">>, paddle |-> <<"p","a","d","d","l","e","_","j","o","y","s","t","i","c","k">>,
   thumbstick |-> <<"t","h","u","m","b","s","t","i","c","k","_","j","o","y","s","t","i","c","k">>, fingertip |-> <<"f","i","n","g","e","r","t","i","p","_","j","o","y","s","t","i","c","k">>,
   terminal |-> <<"t","e","r","m","i","n","a","l","_","b","l","o","c","k">>]

\* the first word of the part of a filename before its first '_'
LeadingToken(filename) ==
  IF SplitWs(Split(filename, "_")[1]) = <<>> THEN <<>>
  ELSE SplitWs(Split(filename, "_")[1])[1]

\* the rules in their order: the markers looked for in the filename, the
\* markers looked for in the text, and the type of the rule
TypeRules ==
  <<[name |-> {<<"b","h","n">>}, text |-> {<<"b","h","n"," ","s","e","r","i","e","s">>}, type |-> TypeNames.paddle],
    [name |-> {<<"c","j">>}, text |-> {<<"c","j"," ","s","e","r","i","e","s">>}, type |-> TypeNames.thumbstick],
    [name |-> {<<"x","s">>}, text |-> {<<"x","s"," ","s","e","r","i","e","s">>}, type |-> TypeNames.fingertip],
    [name |-> {<<"f","t","1","j">>, <<"f","t","2","j">>}, text |-> {<<"c","o","n","t","r","o","l","l","e","r"," ","w","i","t","h"," ","o","p","e","r","a","t","o","r"," ","i","n","t","e","r","f","a","c","e">>},
     type |-> TypeNames.led],
    [name |-> {<<"h","s","1","t">>}, text |-> {<<"i","n","t","e","r","l","o","c","k"," ","s","w","i","t","c","h">>}, type |-> TypeNames.led],
    [name |-> {<<"b","n","-","w">>, <<"b","n","h","-","w">>}, text |-> {}, type |-> TypeNames.terminal],
    [name |-> {}, text |-> {<<"p","a","d","d","l","e"," ","j","o","y","s","t","i","c","k">>, <<"p","a","d","d","l","e"," ","c","o","n","t","r","o","l","l","e","r">>},
     type |-> TypeNames.paddle],
    [name |-> {}, text |-> {<<"h","a","n","d"," ","g","r","i","p">>, <<"f","i","n","g","e","r","t","i","p"," ","j","o","y","s","t","i","c","k">>},
     type |-> TypeNames.thumbstick],
    [name |-> {}, text |-> {<<"f","i","n","g","e","r","t","i","p"," ","c","o","n","t","r","o","l","l","e","r">>, <<"p","r","o","p","o","r","t","i","o","n","a","l"," ","f","i","n","g","e","r","t","i","p">>},
     type |-> TypeNames.fingertip]>>

\* rule i matches whatever a leading token is: a marker of the text is in
\* the text, or a marker of the filename is in the filename and, for the
\* second and third rule, in its leading token
SurelyMatches(i, text, filename) ==
  \/ \E m \in TypeRules[i].text : Contains(m, Lower(text))
  \/ \E m \in TypeRules[i].name :
       /\ Contains(m, Lower(filename))
       /\ i \in {2, 3} => Contains(m, LeadingToken(Lower(filename)))

\* rule i can match: a marker is somewhere in the text or the filename
CanMatch(i, text, filename) ==
  \/ \E m \in TypeRules[i].text : Contains(m, Lower(text))
  \/ \E m \in TypeRules[i].name : Contains(m, Lower(filename))

\* C22: detect_product_type returns one of the five product types for every
\* filename and text: the type of the first rule that matches, the series
\* markers before the keywords of the text, and led_indicator when no rule
\* matches
C22_FirstRuleWins ==
  (call.fn = "detect_product_type" /\ call.returned) =>
     /\ call.result \in {TypeNames[t] : t \in DOMAIN TypeNames}
     /\ \A i \in 1..Len(TypeRules) :
          (/\ SurelyMatches(i, call.args[1], call.args[2])
           /\ \A j \in 1..(i - 1) : ~CanMatch(j, call.args[1], call.args[2]))
          => call.result = TypeRules[i].type
     /\ (\A j \in 1..Len(TypeRules) : ~CanMatch(j, call.args[1], call.args[2]))
          => call.result = TypeNames.led

\* C23: without 'cj series' in the text the second rule fires only on a
\* filename whose leading token holds 'cj', and without 'xs series' the
\* third only on one whose leading token holds 'xs': a filename with the
\* marker elsewhere, and a text without the keywords of those types, is
\* not a thumbstick or fingertip joystick
C23_LeadingTokenOnly ==
  (call.fn = "detect_product_type" /\ call.returned
     /\ \A i \in {2, 3, 8, 9} : \A m \in TypeRules[i].text : ~Contains(m, Lower(call.args[1]))) =>
     /\ call.result = TypeNames.thumbstick =>
          Contains(<<"c","j">>, LeadingToken(Lower(call.args[2])))
     /\ call.result = TypeNames.fingertip =>
          Contains(<<"x","s">>, LeadingToken(Lower(call.args[2])))

\* a call is about to be made: a function and its arguments
CallInit ==
  /\ Idle
  /\ call \in
     {Called("standardize_voltage", args) : args \in {<<x>> : x \in VoltageStrings}}
     \cup {Called("clean_dimension", args) : args \in {<<x>> : x \in DimensionStrings}}
     \cup {Called("clean_and_dedupe_values", args) : args \in {<<v, t>> : v \in ValueStrings, t \in value_types}}
     \cup {Called("extract_model_codes", args) : args \in {<<text, tables, <<"H","S","1","T">> >> : text \in Concats(CodeTokens, MaxTokens), tables \in CodeTables}}
     \cup {Called("extract_sealing", args) : args \in RatingCalls}
     \cup {Called("extract_voltage", args) : args \in RatingCalls}
     \cup {Called("format_with_codes", args) : args \in {<<codes_dict, values_list>> : codes_dict \in CodeMappings, values_list \in ValueLists}}
     \cup {Called("analyze_extraction_confidence", args) : args \in {<<result, <<>>, pages_text>> : result \in ExtractionResults, pages_text \in PageTexts}}
     \cup {Called("calculate_overall_confidence", args) : args \in {<<validation>> : validation \in ValidationMaps}}
     \cup {Called("detect_product_type", args) : args \in {<<text, filename>> : text \in TypeTexts, filename \in Concats(NameTokens, MaxTokens)}}

CallNext ==
  \/ Call_standardize_voltage
  \/ Call_clean_dimension
  \/ Call_clean_and_dedupe_values
  \/ Call_extract_model_codes
  \/ Call_extract_sealing
  \/ Call_extract_voltage
  \/ Call_format_with_codes
  \/ Call_analyze_extraction_confidence
  \/ Call_calculate_overall_confidence
  \/ Call_detect_product_type

Calls == CallInit /\ [][CallNext]_vars

====
